---- MODULE Spec2Model ----
(***************************************************************************)
(* Model of the non-blocking BMP280 driver (src/src/bmp280.c, the later    *)
(* of the two revisions in that file, lines 340-932) together with the     *)
(* collaborators it is given at creation: read_regs, write_reg,            *)
(* start_timer and the caller's completion callback.                       *)
(*                                                                         *)
(* One driver instance is modelled.  A public command is one action; each  *)
(* continuation the driver hands to a collaborator is one action, taken    *)
(* when the collaborator invokes it.  The collaborator's transfer of the   *)
(* bytes of a register read into the destination buffer is a step of its   *)
(* own, because the contract of BMP280ReadRegs only promises the bytes are *)
(* there when the continuation runs.                                       *)
(***************************************************************************)
EXTENDS Integers, Sequences, FiniteSets, TLC

\* ------------------------------------------------------------------------
\* Bounds of the model
\* ------------------------------------------------------------------------
\* Number of commands the caller gets accepted in one behaviour.
MaxCmds == 2

\* ------------------------------------------------------------------------
\* Program constants
\* ------------------------------------------------------------------------
BMP280_RESULT_CODE_OK == 0
BMP280_RESULT_CODE_INVAL_ARG == 1
BMP280_RESULT_CODE_NO_MEM == 2
BMP280_RESULT_CODE_IO_ERR == 3
BMP280_RESULT_CODE_DRIVER_ERR == 4
BMP280_RESULT_CODE_INVAL_USAGE == 5
\* Used by the tests (test_busy_if_seq_in_progress); the enum of the header
\* under src/ ends at INVAL_USAGE, so the value is the next enumerator.
BMP280_RESULT_CODE_BUSY == 6

BMP280_IO_RESULT_CODE_OK == 0
BMP280_IO_RESULT_CODE_ERR == 1

BMP280_MEAS_TYPE_ONLY_TEMP == 0
BMP280_MEAS_TYPE_TEMP_AND_PRES == 1

BMP280_OVERSAMPLING_SKIPPED == 0
BMP280_OVERSAMPLING_1 == 1
BMP280_OVERSAMPLING_2 == 2
BMP280_OVERSAMPLING_4 == 3
BMP280_OVERSAMPLING_8 == 4
BMP280_OVERSAMPLING_16 == 5

BMP280_FILTER_COEFF_FILTER_OFF == 0
BMP280_FILTER_COEFF_2 == 1
BMP280_FILTER_COEFF_4 == 2
BMP280_FILTER_COEFF_8 == 3
BMP280_FILTER_COEFF_16 == 4

BMP280_SPI_3_WIRE_DIS == 0
BMP280_SPI_3_WIRE_EN == 1

BMP280_CALIB_DATA_START_REG_ADDR == 136
BMP280_CHIP_ID_REG_ADDR == 208
BMP280_RESET_REG_ADDR == 224
BMP280_CTRL_MEAS_REG_ADDR == 244
BMP280_CONFIG_REG_ADDR == 245
BMP280_PRES_MSB_REG_ADDR == 247
BMP280_TEMP_MSB_REG_ADDR == 250

BMP280_BIT_MSK_POWER_MODE_FORCED == 1
BMP280_RESET_REG_VALUE == 182
BMP280_POWER_ON_RESET_DURATION_MS == 2
BMP280_READ_BUF_SIZE == 24

\* ------------------------------------------------------------------------
\* Values the caller and the collaborators draw from
\* ------------------------------------------------------------------------
NULL == "NULL"
\* The caller's completion callback (mock_bmp280_complete_cb in the tests).
CompleteCb == "complete_cb"
CbArgs == {NULL, CompleteCb}
\* self, chip_id and meas are pointers: null or pointing at an object.
PtrArgs == {NULL, "ptr"}

\* uint8_t arguments: valid enumerators and one value outside the enum.
OversamplingArgs == {BMP280_OVERSAMPLING_1, BMP280_OVERSAMPLING_8, 6}
FilterCoeffArgs == {BMP280_FILTER_COEFF_2, BMP280_FILTER_COEFF_16, 5}
Spi3WireArgs == {BMP280_SPI_3_WIRE_DIS, BMP280_SPI_3_WIRE_EN, 2}
MeasTypeArgs == {BMP280_MEAS_TYPE_ONLY_TEMP, BMP280_MEAS_TYPE_TEMP_AND_PRES, 2}
MeasTimeArgs == {0, 50}

\* Bytes a one-register read may return: 0x55 and 0xAA, so that every bit
\* is seen both set and clear.
ByteVals == {85, 170}

\* 24 calibration registers: the two blocks of the tests.
default_calib_data ==
    << 112, 107, 67, 103, 24, 252, 125, 142, 67, 214, 208, 11,
       39, 11, 140, 0, 249, 255, 140, 60, 248, 198, 112, 23 >>
alt_calib_data ==
    << 130, 107, 83, 103, 24, 251, 127, 142, 67, 214, 208, 11,
       39, 11, 156, 0, 249, 255, 128, 60, 248, 198, 112, 23 >>
CalibBlocks == {default_calib_data, alt_calib_data}

\* The first block with dig_P1 (registers 0x8E, 0x8F) zero.
zero_p1_calib_data ==
    << 112, 107, 67, 103, 24, 252, 0, 0, 67, 214, 208, 11,
       39, 11, 140, 0, 249, 255, 140, 60, 248, 198, 112, 23 >>
MeasCalibBlocks == CalibBlocks \cup {zero_p1_calib_data}

\* Measurement registers: press_msb, press_lsb, press_xlsb, temp_msb, ...
MeasBlocks3 == { <<126, 237, 0>>, <<122, 18, 0>> }
MeasBlocks6 == { <<101, 90, 192, 126, 237, 0>>, <<85, 115, 0, 122, 18, 0>> }

\* ------------------------------------------------------------------------
\* uint8_t bit operations
\* ------------------------------------------------------------------------
Pow2(n) == IF n = 0 THEN 1 ELSE 2 ^ n
Bit(v, i) == (v \div Pow2(i)) % 2

RECURSIVE AndBits(_, _, _)
AndBits(a, b, i) ==
    IF i < 0 THEN 0
    ELSE Bit(a, i) * Bit(b, i) * Pow2(i) + AndBits(a, b, i - 1)

RECURSIVE OrBits(_, _, _)
OrBits(a, b, i) ==
    IF i < 0 THEN 0
    ELSE (IF Bit(a, i) = 1 \/ Bit(b, i) = 1 THEN Pow2(i) ELSE 0)
         + OrBits(a, b, i - 1)

\* a & b, a | b and ~a on uint8_t operands, result converted to uint8_t.
BitAnd8(a, b) == AndBits(a, b, 7)
BitOr8(a, b) == OrBits(a, b, 7)
BitNot8(a) == 255 - a
\* (uint8_t)(((uint8_t)x) << n)
ShiftLeft8(x, n) == ((x % 256) * Pow2(n)) % 256

\* bits[hi:lo] of a byte, as a number
Field(v, hi, lo) == (v \div Pow2(lo)) % Pow2(hi - lo + 1)

\* ------------------------------------------------------------------------
\* State
\* ------------------------------------------------------------------------
VARIABLES
    \* the caller's handle: NULL until bmp280_create has succeeded
    self,
    \* struct BMP280Struct
    complete_cb, complete_cb_user_data, meas, timer_period_ms, meas_type,
    oversamlping, filter_coeff, spi_3_wire, read_buf, calib_temp, calib_pres,
    is_meas_init,
    \* requests handed to read_regs / write_reg / start_timer whose
    \* continuation has not been invoked yet
    pending,
    \* a second instance, in storage of its own: its handle, its struct
    \* BMP280Struct and the requests it has outstanding
    other,
    \* caller-owned output locations, one per accepted command
    chip_id_mem, meas_mem,
    \* history: number of accepted commands, what happened to each of them,
    \* and a description of the step just taken
    nCmds, hist, last

instVars == << complete_cb, complete_cb_user_data, meas, timer_period_ms,
               meas_type, oversamlping, filter_coeff, spi_3_wire, read_buf,
               calib_temp, calib_pres, is_meas_init >>
seqVars == << complete_cb, complete_cb_user_data >>
paramVars == << meas, timer_period_ms, meas_type, oversamlping, filter_coeff,
                spi_3_wire >>
calibVars == << calib_temp, calib_pres, is_meas_init >>
memVars == << chip_id_mem, meas_mem >>
vars == << self, complete_cb, complete_cb_user_data, meas, timer_period_ms,
           meas_type, oversamlping, filter_coeff, spi_3_wire, read_buf,
           calib_temp, calib_pres, is_meas_init, pending, other, chip_id_mem,
           meas_mem, nCmds, hist, last >>

Tokens == 1 .. MaxCmds

NoRc == 0 - 1

NoHist == [op |-> "none", arg |-> << >>, cb |-> NULL, busy |-> FALSE,
           calls |-> 0, failed |-> FALSE, result |-> << >>,
           delivered |-> << >>]

\* Some accepted command has not reached its completion point yet.
InFlight == \E t \in Tokens : hist[t].op # "none" /\ hist[t].result = << >>

Step(kind, name, owner, valid, ret, io_rc, v, issued, fired) ==
    [step |-> kind, name |-> name, owner |-> owner, valid |-> valid,
     busy |-> InFlight, ret |-> ret, io_rc |-> io_rc, v |-> v,
     issued |-> issued, fired |-> fired]

\* An instance as the pair of its handle and the memory behind it, with
\* the requests it has handed to its collaborators.
InstanceState ==
    [self |-> self, complete_cb |-> complete_cb,
     complete_cb_user_data |-> complete_cb_user_data, meas |-> meas,
     timer_period_ms |-> timer_period_ms, meas_type |-> meas_type,
     oversamlping |-> oversamlping, filter_coeff |-> filter_coeff,
     spi_3_wire |-> spi_3_wire, read_buf |-> read_buf,
     calib_temp |-> calib_temp, calib_pres |-> calib_pres,
     is_meas_init |-> is_meas_init, pending |-> pending]

\* No second instance has been created.
NoInstance == [self |-> NULL]

\* The step just taken was a call that a synchronous check refused.  Such a
\* call changes no field of the instance, no request and no output, so what
\* can follow it is what can follow the state it was made in; behaviours
\* are explored up to a refused call and not beyond it.
Rejected ==
    last.step \in {"call", "create"} /\ last.ret # BMP280_RESULT_CODE_OK

\* The caller makes a call.  The instance pointer it passes is null or the
\* handle bmp280_create gave it.
CallerReady(s) ==
    /\ ~Rejected
    /\ s \in {NULL, self}

\* ------------------------------------------------------------------------
\* Collaborator requests
\* ------------------------------------------------------------------------
Req(owner, fn, addr, arg, data, cb) ==
    [owner |-> owner, fn |-> fn, addr |-> addr, arg |-> arg, data |-> data,
     cb |-> cb, landed |-> FALSE, got |-> << >>]

read_chip_id(owner, cb) ==
    Req(owner, "read_regs", BMP280_CHIP_ID_REG_ADDR, 1, "chip_id", cb)

send_reset_cmd(owner, cb) ==
    Req(owner, "write_reg", BMP280_RESET_REG_ADDR, BMP280_RESET_REG_VALUE,
        "none", cb)

read_ctrl_meas_reg(owner, cb) ==
    Req(owner, "read_regs", BMP280_CTRL_MEAS_REG_ADDR, 1, "read_buf", cb)

write_ctrl_meas_reg(owner, val, cb) ==
    Req(owner, "write_reg", BMP280_CTRL_MEAS_REG_ADDR, val, "none", cb)

read_calib_data(owner, cb) ==
    Req(owner, "read_regs", BMP280_CALIB_DATA_START_REG_ADDR, 24, "read_buf",
        cb)

read_config_reg(owner, cb) ==
    Req(owner, "read_regs", BMP280_CONFIG_REG_ADDR, 1, "read_buf", cb)

write_config_reg(owner, val, cb) ==
    Req(owner, "write_reg", BMP280_CONFIG_REG_ADDR, val, "none", cb)

start_timer(owner, duration_ms, cb) ==
    Req(owner, "start_timer", 0, duration_ms, "none", cb)

\* The call cfg->get_inst_buf(cfg->get_inst_buf_user_data) of bmp280_create:
\* it returns at once and has no continuation.
get_inst_buf == Req(0, "get_inst_buf", 0, 0, "none", "none")

\* ------------------------------------------------------------------------
\* Argument checks
\* ------------------------------------------------------------------------
\* is_valid_cfg without the check of start_timer.
is_valid_cfg_without_start_timer(cfg) ==
    /\ cfg.cfg # NULL
    /\ cfg.get_inst_buf # NULL
    /\ cfg.read_regs # NULL
    /\ cfg.write_reg # NULL

is_valid_cfg(cfg) ==
    /\ cfg.cfg # NULL
    /\ cfg.get_inst_buf # NULL
    /\ cfg.read_regs # NULL
    /\ cfg.write_reg # NULL
    /\ cfg.start_timer # NULL

\* is_valid_meas_type accepting every value.
is_valid_meas_type_any(mt) ==
    mt \in Nat

is_valid_meas_type(mt) ==
    \/ mt = BMP280_MEAS_TYPE_ONLY_TEMP
    \/ mt = BMP280_MEAS_TYPE_TEMP_AND_PRES

\* is_valid_oversampling without its last alternative.
is_valid_oversampling_without_16(oversampling) ==
    \/ oversampling = BMP280_OVERSAMPLING_SKIPPED
    \/ oversampling = BMP280_OVERSAMPLING_1
    \/ oversampling = BMP280_OVERSAMPLING_2
    \/ oversampling = BMP280_OVERSAMPLING_4
    \/ oversampling = BMP280_OVERSAMPLING_8

is_valid_oversampling(oversampling) ==
    \/ oversampling = BMP280_OVERSAMPLING_SKIPPED
    \/ oversampling = BMP280_OVERSAMPLING_1
    \/ oversampling = BMP280_OVERSAMPLING_2
    \/ oversampling = BMP280_OVERSAMPLING_4
    \/ oversampling = BMP280_OVERSAMPLING_8
    \/ oversampling = BMP280_OVERSAMPLING_16

is_valid_filter_coeff(fc) ==
    \/ fc = BMP280_FILTER_COEFF_FILTER_OFF
    \/ fc = BMP280_FILTER_COEFF_2
    \/ fc = BMP280_FILTER_COEFF_4
    \/ fc = BMP280_FILTER_COEFF_8
    \/ fc = BMP280_FILTER_COEFF_16

is_valid_spi_3_wire(m) ==
    \/ m = BMP280_SPI_3_WIRE_DIS
    \/ m = BMP280_SPI_3_WIRE_EN

\* ------------------------------------------------------------------------
\* Sequencer
\* ------------------------------------------------------------------------
\* start_sequence keeping the stored callback when it is given a null one.
start_sequence_keeps_on_null(cb, user_data) ==
    IF cb = NULL
    THEN UNCHANGED << complete_cb, complete_cb_user_data >>
    ELSE /\ complete_cb' = cb
         /\ complete_cb_user_data' = user_data

start_sequence(cb, user_data) ==
    /\ complete_cb' = cb
    /\ complete_cb_user_data' = user_data

\* The completion point of the sequence run by command `owner`: the stored
\* callback, if there is one, is invoked with rc and the stored user data.
execute_complete_cb(h, owner, rc) ==
    LET h1 == [h EXCEPT ![owner].result = Append(@, rc)]
    IN  IF complete_cb # NULL
        THEN [h1 EXCEPT ![complete_cb_user_data].delivered = Append(@, rc)]
        ELSE h1

Fired(rc) ==
    IF complete_cb # NULL
    THEN << [user_data |-> complete_cb_user_data, rc |-> rc] >>
    ELSE << >>

NoteIo(h, owner, io_rc) ==
    IF io_rc \in {NoRc, BMP280_IO_RESULT_CODE_OK} THEN h
    ELSE [h EXCEPT ![owner].failed = TRUE]

\* A public call that is rejected by a synchronous check.  valid records
\* whether the arguments were in the ranges the header documents.
Reject(name, valid, rc) ==
    /\ last' = Step("call", name, 0, valid, rc, NoRc, << >>, << >>, << >>)
    /\ UNCHANGED << self, instVars, pending, other, memVars, nCmds, hist >>

\* The part of an accepted public call that every command shares: the
\* first request goes out and the call returns OK.  The history notes
\* whether an earlier command was in flight when the call was made.
Accept(name, arg, cb, tok, req) ==
    /\ nCmds' = tok
    /\ pending' = pending \cup {req}
    /\ hist' = [hist EXCEPT ![tok] =
                   [NoHist EXCEPT !.op = name, !.arg = arg, !.cb = cb,
                                  !.busy = InFlight, !.calls = 1]]
    /\ last' = Step("call", name, tok, TRUE, BMP280_RESULT_CODE_OK, NoRc,
                    << >>, << req >>, << >>)
    /\ UNCHANGED << self, other, memVars >>

\* The collaborator invokes continuation `name` of request r.  A register
\* read that reports success has put its bytes into the destination.
Invoked(r, name, io_rc) ==
    /\ ~Rejected
    /\ r \in pending
    /\ r.cb = name
    /\ (r.fn = "read_regs" /\ io_rc = BMP280_IO_RESULT_CODE_OK) => r.landed

\* The continuation ends the sequence with result rc.
Finish(r, name, io_rc, rc) ==
    /\ pending' = pending \ {r}
    /\ hist' = execute_complete_cb(NoteIo(hist, r.owner, io_rc), r.owner, rc)
    /\ last' = Step("cb", name, r.owner, TRUE, NoRc, io_rc, r.got, << >>,
                    Fired(rc))
    /\ UNCHANGED << self, seqVars, paramVars, read_buf, other, chip_id_mem,
                    nCmds >>

\* The continuation issues the next request of the sequence.
Continue(r, name, io_rc, req) ==
    /\ pending' = (pending \ {r}) \cup {req}
    /\ hist' = [hist EXCEPT ![r.owner].calls = @ + 1]
    /\ last' = Step("cb", name, r.owner, TRUE, NoRc, io_rc, r.got, << req >>,
                    << >>)
    /\ UNCHANGED << self, instVars, other, memVars, nCmds >>

IoRcs == {BMP280_IO_RESULT_CODE_OK, BMP280_IO_RESULT_CODE_ERR}

\* ------------------------------------------------------------------------
\* Calibration converter
\* ------------------------------------------------------------------------
\* C's >> on a signed operand (arithmetic shift).
Sar(x, n) == x \div Pow2(n)

two_little_endian_bytes_to_uint16(bytes, i) ==
    bytes[i + 2] * 256 + bytes[i + 1]

two_little_endian_bytes_to_int16(bytes, i) ==
    LET unsigned_val == bytes[i + 2] * 256 + bytes[i + 1]
    IN  IF unsigned_val >= 32768 THEN unsigned_val - 65536 ELSE unsigned_val

\* data is the read buffer, off the C index of the first byte to convert.
convert_temp_calib_reg_vals_to_calib_values(data, off) ==
    [dig_T1 |-> two_little_endian_bytes_to_uint16(data, off + 0),
     dig_T2 |-> two_little_endian_bytes_to_int16(data, off + 2),
     dig_T3 |-> two_little_endian_bytes_to_int16(data, off + 4)]

convert_pres_calib_reg_vals_to_calib_values(data, off) ==
    [dig_P1 |-> two_little_endian_bytes_to_uint16(data, off + 0),
     dig_P2 |-> two_little_endian_bytes_to_int16(data, off + 2),
     dig_P3 |-> two_little_endian_bytes_to_int16(data, off + 4),
     dig_P4 |-> two_little_endian_bytes_to_int16(data, off + 6),
     dig_P5 |-> two_little_endian_bytes_to_int16(data, off + 8),
     dig_P6 |-> two_little_endian_bytes_to_int16(data, off + 10),
     dig_P7 |-> two_little_endian_bytes_to_int16(data, off + 12),
     dig_P8 |-> two_little_endian_bytes_to_int16(data, off + 14),
     dig_P9 |-> two_little_endian_bytes_to_int16(data, off + 16)]

\* temp_pres_bytes_to_raw_val taking the third byte as it is.
temp_pres_bytes_to_raw_val_unshifted(data, off) ==
    data[off + 1] * 4096 + data[off + 2] * 16 + data[off + 3]

\* The three shifted bytes occupy bits 19..12, 11..4 and 3..0, so their
\* bitwise OR is their sum.
temp_pres_bytes_to_raw_val(data, off) ==
    data[off + 1] * 4096 + data[off + 2] * 16
        + (BitAnd8(data[off + 3], 240) \div 16)

compensate_t_fine(calib, temp_raw) ==
    LET var1 == Sar((Sar(temp_raw, 3) - calib.dig_T1 * 2) * calib.dig_T2, 11)
        var2 == Sar(Sar((Sar(temp_raw, 4) - calib.dig_T1)
                          * (Sar(temp_raw, 4) - calib.dig_T1), 12)
                      * calib.dig_T3, 14)
    IN  var1 + var2

\* compensate_temp without the rounding term 128.
compensate_temp_truncating(calib, temp_raw) ==
    Sar(compensate_t_fine(calib, temp_raw) * 5, 8)

compensate_temp(calib, temp_raw) ==
    Sar(compensate_t_fine(calib, temp_raw) * 5 + 128, 8)

\* ------------------------------------------------------------------------
\* int64_t arithmetic
\* ------------------------------------------------------------------------
\* The model checker's integers are 32 bits wide.  An int64_t value is kept
\* as a sign and a magnitude, the magnitude as a sequence of base-2^15
\* digits, least significant first, without leading zero digits.
Base == Pow2(15)

Digit(m, i) == IF i <= Len(m) THEN m[i] ELSE 0

RECURSIVE Trim(_)
Trim(m) ==
    IF m = << >> THEN << >>
    ELSE IF m[Len(m)] = 0 THEN Trim(SubSeq(m, 1, Len(m) - 1))
    ELSE m

RECURSIVE MagOfNat(_)
MagOfNat(n) ==
    IF n = 0 THEN << >> ELSE << n % Base >> \o MagOfNat(n \div Base)

RECURSIVE MagAddC(_, _, _, _)
MagAddC(a, b, i, c) ==
    IF i > Len(a) /\ i > Len(b)
    THEN (IF c = 0 THEN << >> ELSE << c >>)
    ELSE LET t == Digit(a, i) + Digit(b, i) + c
         IN  << t % Base >> \o MagAddC(a, b, i + 1, t \div Base)

MagAdd(a, b) == MagAddC(a, b, 1, 0)

RECURSIVE MagLessFrom(_, _, _)
MagLessFrom(a, b, i) ==
    IF i = 0 THEN FALSE
    ELSE IF a[i] # b[i] THEN a[i] < b[i]
    ELSE MagLessFrom(a, b, i - 1)

MagLess(a, b) ==
    IF Len(a) # Len(b) THEN Len(a) < Len(b) ELSE MagLessFrom(a, b, Len(a))

\* a - b for a >= b
RECURSIVE MagSubB(_, _, _, _)
MagSubB(a, b, i, br) ==
    IF i > Len(a) THEN << >>
    ELSE LET t == Digit(a, i) - Digit(b, i) - br
         IN  << (t + Base) % Base >>
                 \o MagSubB(a, b, i + 1, IF t < 0 THEN 1 ELSE 0)

MagSub(a, b) == Trim(MagSubB(a, b, 1, 0))

RECURSIVE MagMulDigit(_, _, _, _)
MagMulDigit(a, d, i, c) ==
    IF i > Len(a) THEN (IF c = 0 THEN << >> ELSE << c >>)
    ELSE LET t == a[i] * d + c
         IN  << t % Base >> \o MagMulDigit(a, d, i + 1, t \div Base)

MagShiftDigits(a, k) ==
    IF a = << >> THEN << >> ELSE [j \in 1 .. k |-> 0] \o a

RECURSIVE MagMulFrom(_, _, _)
MagMulFrom(a, b, j) ==
    IF j > Len(b) THEN << >>
    ELSE MagAdd(MagShiftDigits(Trim(MagMulDigit(a, b[j], 1, 0)), j - 1),
                MagMulFrom(a, b, j + 1))

MagMul(a, b) == MagMulFrom(a, b, 1)

MagPow2(n) == [j \in 1 .. (n \div 15) |-> 0] \o << Pow2(n % 15) >>

\* The largest digit q in lo .. hi with d * q <= r.
RECURSIVE QuotDigit(_, _, _, _)
QuotDigit(r, d, lo, hi) ==
    IF lo >= hi THEN lo
    ELSE IF MagLess(r, Trim(MagMulDigit(d, (lo + hi + 1) \div 2, 1, 0)))
    THEN QuotDigit(r, d, lo, ((lo + hi + 1) \div 2) - 1)
    ELSE QuotDigit(r, d, (lo + hi + 1) \div 2, hi)

\* Long division of a by d (d not zero): digits 1 .. i of the quotient, rem
\* being the remainder left by the digits above i.  The two leading digits
\* of the running remainder r and the leading digit of d bracket each
\* quotient digit.
RECURSIVE MagDivFrom(_, _, _, _)
RECURSIVE MagDivDigit(_, _, _, _)
RECURSIVE MagDivEmit(_, _, _, _, _)
MagDivEmit(a, d, i, r, q) ==
    MagDivFrom(a, d, i - 1, MagSub(r, Trim(MagMulDigit(d, q, 1, 0))))
        \o << q >>

MagDivDigit(a, d, i, r) ==
    MagDivEmit(a, d, i, r,
               QuotDigit(r, d,
                         (Digit(r, Len(d) + 1) * Base + Digit(r, Len(d)))
                             \div (d[Len(d)] + 1),
                         IF Digit(r, Len(d) + 1) >= d[Len(d)] THEN Base - 1
                         ELSE (Digit(r, Len(d) + 1) * Base + Digit(r, Len(d)))
                                  \div d[Len(d)]))

MagDivFrom(a, d, i, rem) ==
    IF i = 0 THEN << >> ELSE MagDivDigit(a, d, i, Trim(<< a[i] >> \o rem))

\* Scaling both operands so that the leading digit of d is at least Base / 2
\* leaves the quotient unchanged and makes the brackets narrow.
MagDivScaled(a, d) == Trim(MagDivFrom(a, d, Len(a), << >>))

MagDiv(a, d) ==
    MagDivScaled(Trim(MagMulDigit(a, Base \div (d[Len(d)] + 1), 1, 0)),
                 Trim(MagMulDigit(d, Base \div (d[Len(d)] + 1), 1, 0)))

I64Val(neg, mag) == [neg |-> neg /\ mag # << >>, mag |-> mag]

\* (int64_t)x for an int32_t x
I64(x) == I64Val(x < 0, MagOfNat(IF x < 0 THEN 0 - x ELSE x))

I64Add(a, b) ==
    IF a.neg = b.neg THEN I64Val(a.neg, MagAdd(a.mag, b.mag))
    ELSE IF MagLess(a.mag, b.mag) THEN I64Val(b.neg, MagSub(b.mag, a.mag))
    ELSE I64Val(a.neg, MagSub(a.mag, b.mag))

I64Sub(a, b) == I64Add(a, I64Val(~b.neg, b.mag))

I64Mul(a, b) == I64Val(a.neg # b.neg, MagMul(a.mag, b.mag))

\* a << n: the value times 2^n, as two's-complement targets compute it.
I64Shl(a, n) == I64Val(a.neg, MagMul(a.mag, MagPow2(n)))

\* The magnitude divided by 2^n, rounding down.
MagShr(m, n) ==
    LET k == n \div 15
        sh == n % 15
    IN  IF Len(m) <= k THEN << >>
        ELSE Trim([i \in 1 .. (Len(m) - k) |->
                     (m[i + k] \div Pow2(sh))
                         + (Digit(m, i + k + 1) % Pow2(sh)) * Pow2(15 - sh)])

\* a >> n on a signed operand: arithmetic shift, rounding down.
I64Sar(a, n) ==
    IF a.neg
    THEN I64Val(TRUE, MagShr(MagAdd(a.mag, MagSub(MagPow2(n), << 1 >>)), n))
    ELSE I64Val(FALSE, MagShr(a.mag, n))

\* a / b: truncation towards zero.
I64Div(a, b) == I64Val(a.neg # b.neg, MagDiv(a.mag, b.mag))

\* (uint32_t)a: the low 32 bits of the two's-complement representation.
I64ToUint32(a) ==
    LET low == Digit(a.mag, 1) + Digit(a.mag, 2) * Base
        top == Digit(a.mag, 3) % 4
        hi == top * Pow2(14) + (low \div Pow2(16))
        lo == low % Pow2(16)
        nhi == IF lo = 0 THEN (Pow2(16) - hi) % Pow2(16) ELSE Pow2(16) - 1 - hi
        nlo == (Pow2(16) - lo) % Pow2(16)
    IN  IF a.neg THEN nhi * Pow2(16) + nlo ELSE hi * Pow2(16) + lo

\* compensate_pres, statement by statement; each stage takes the values
\* the statements before it left in var1, var2 and p.
compensate_pres_result(calib, p) ==
    I64ToUint32(
        I64Add(I64Sar(I64Add(I64Add(p,
                                    I64Sar(I64Mul(I64Mul(I64(calib.dig_P9),
                                                         I64Sar(p, 13)),
                                                  I64Sar(p, 13)), 25)),
                             I64Sar(I64Mul(I64(calib.dig_P8), p), 19)), 8),
               I64Shl(I64(calib.dig_P7), 4)))

\* compensate_pres going on with p = 0 when var1 is zero.
compensate_pres_p_without_zero_check(calib, pres_raw, var1, var2) ==
    compensate_pres_result(
        calib,
        IF var1.mag = << >> THEN I64(0)
        ELSE I64Div(I64Mul(I64Sub(I64Shl(I64(1048576 - pres_raw), 31), var2),
                           I64(3125)),
                    var1))

compensate_pres_p(calib, pres_raw, var1, var2) ==
    IF var1.mag = << >> THEN 0
    ELSE compensate_pres_result(
             calib,
             I64Div(I64Mul(I64Sub(I64Shl(I64(1048576 - pres_raw), 31), var2),
                           I64(3125)),
                    var1))

compensate_pres_var1(calib, pres_raw, var1, var2) ==
    compensate_pres_p(
        calib, pres_raw,
        I64Sar(I64Mul(I64Add(I64Shl(I64(1), 47),
                             I64Add(I64Sar(I64Mul(I64Mul(var1, var1),
                                                  I64(calib.dig_P3)), 8),
                                    I64Shl(I64Mul(var1, I64(calib.dig_P2)),
                                           12))),
                      I64(calib.dig_P1)), 33),
        var2)

compensate_pres_var2(calib, pres_raw, var1) ==
    compensate_pres_var1(
        calib, pres_raw, var1,
        I64Add(I64Add(I64Mul(I64Mul(var1, var1), I64(calib.dig_P6)),
                      I64Shl(I64Mul(var1, I64(calib.dig_P5)), 17)),
               I64Shl(I64(calib.dig_P4), 35)))

\* compensate_pres starting from var1 = t_fine, without the offset 128000.
compensate_pres_without_offset(calib, pres_raw, t_fine) ==
    compensate_pres_var2(calib, pres_raw, I64(t_fine))

compensate_pres(calib, pres_raw, t_fine) ==
    compensate_pres_var2(calib, pres_raw, I64Sub(I64(t_fine), I64(128000)))

\* ------------------------------------------------------------------------
\* Initial state: nothing created yet.  The memory get_inst_buf will hand
\* out is not initialised, so the one field bmp280_create writes may hold
\* anything before.
\* ------------------------------------------------------------------------
Init ==
    /\ self = NULL
    /\ is_meas_init \in BOOLEAN
    /\ complete_cb = NULL
    /\ complete_cb_user_data = 0
    /\ meas = 0
    /\ timer_period_ms = 0
    /\ meas_type = 0
    /\ oversamlping = 0
    /\ filter_coeff = 0
    /\ spi_3_wire = 0
    /\ read_buf = [i \in 1 .. BMP280_READ_BUF_SIZE |-> 0]
    /\ calib_temp = [dig_T1 |-> 0, dig_T2 |-> 0, dig_T3 |-> 0]
    /\ calib_pres = [dig_P1 |-> 0, dig_P2 |-> 0, dig_P3 |-> 0, dig_P4 |-> 0,
                     dig_P5 |-> 0, dig_P6 |-> 0, dig_P7 |-> 0, dig_P8 |-> 0,
                     dig_P9 |-> 0]
    /\ pending = {}
    /\ other = NoInstance
    /\ chip_id_mem = [t \in Tokens |-> << >>]
    /\ meas_mem = [t \in Tokens |-> [temperature |-> << >>, pressure |-> << >>]]
    /\ nCmds = 0
    /\ hist = [t \in Tokens |-> NoHist]
    /\ last = [step |-> "init", name |-> "none", owner |-> 0, valid |-> TRUE,
               busy |-> FALSE, ret |-> NoRc, io_rc |-> NoRc, v |-> << >>,
               issued |-> << >>, fired |-> << >>]

\* Instance pointers the caller can pass: null, or the handle of an instance.
SelfArgs == PtrArgs \cup {"ptr2"}

CfgArgs == [cfg : PtrArgs, get_inst_buf : PtrArgs, read_regs : PtrArgs,
            write_reg : PtrArgs, start_timer : PtrArgs]

\* ------------------------------------------------------------------------
\* Public functions
\* ------------------------------------------------------------------------
\* bmp280_create without the assignment to is_meas_init: the flag keeps
\* what the instance memory held.  buf is what get_inst_buf returns.
bmp280_create_flag_not_cleared(inst, cfg, buf) ==
    /\ CallerReady(NULL)
    /\ self = NULL
    /\ IF inst = NULL \/ ~is_valid_cfg(cfg)
       THEN /\ last' = Step("create", "bmp280_create", 0, FALSE,
                            BMP280_RESULT_CODE_INVAL_ARG, NoRc,
                            << inst, cfg, buf >>, << >>, << >>)
            /\ UNCHANGED << self, instVars, pending, other, memVars, nCmds, hist >>
       ELSE IF buf = NULL
       THEN /\ last' = Step("create", "bmp280_create", 0, TRUE,
                            BMP280_RESULT_CODE_NO_MEM, NoRc,
                            << inst, cfg, buf >>, << get_inst_buf >>, << >>)
            /\ UNCHANGED << self, instVars, pending, other, memVars, nCmds, hist >>
       ELSE /\ self' = buf
            /\ UNCHANGED is_meas_init
            /\ last' = Step("create", "bmp280_create", 0, TRUE,
                            BMP280_RESULT_CODE_OK, NoRc,
                            << inst, cfg, buf >>, << get_inst_buf >>, << >>)
            /\ UNCHANGED << seqVars, paramVars, read_buf, calib_temp,
                            calib_pres, pending, other, memVars, nCmds, hist >>

\* buf is what get_inst_buf returns when it is called.
bmp280_create(inst, cfg, buf) ==
    /\ CallerReady(NULL)
    /\ self = NULL
    /\ IF inst = NULL \/ ~is_valid_cfg(cfg)
       THEN /\ last' = Step("create", "bmp280_create", 0, FALSE,
                            BMP280_RESULT_CODE_INVAL_ARG, NoRc,
                            << inst, cfg, buf >>, << >>, << >>)
            /\ UNCHANGED << self, instVars, pending, other, memVars, nCmds, hist >>
       ELSE IF buf = NULL
       THEN /\ last' = Step("create", "bmp280_create", 0, TRUE,
                            BMP280_RESULT_CODE_NO_MEM, NoRc,
                            << inst, cfg, buf >>, << get_inst_buf >>, << >>)
            /\ UNCHANGED << self, instVars, pending, other, memVars, nCmds, hist >>
       ELSE /\ self' = buf
            /\ is_meas_init' = FALSE
            /\ last' = Step("create", "bmp280_create", 0, TRUE,
                            BMP280_RESULT_CODE_OK, NoRc,
                            << inst, cfg, buf >>, << get_inst_buf >>, << >>)
            /\ UNCHANGED << seqVars, paramVars, read_buf, calib_temp,
                            calib_pres, pending, other, memVars, nCmds, hist >>

\* bmp280_get_chip_id with a sequence-in-progress flag of static storage
\* duration, which all instances share.
bmp280_get_chip_id_shared_flag(s, chip_id, cb) ==
    /\ CallerReady(s)
    /\ IF s = NULL \/ chip_id = NULL
       THEN Reject("bmp280_get_chip_id", s # NULL /\ chip_id # NULL,
                   BMP280_RESULT_CODE_INVAL_ARG)
       ELSE IF pending # {} \/ (other.self # NULL /\ other.pending # {})
       THEN Reject("bmp280_get_chip_id", TRUE, BMP280_RESULT_CODE_BUSY)
       ELSE /\ nCmds < MaxCmds
            /\ LET tok == nCmds + 1 IN
               /\ start_sequence(cb, tok)
               /\ Accept("bmp280_get_chip_id", << >>, cb, tok,
                         read_chip_id(tok, "generic_io_complete_cb"))
            /\ UNCHANGED << paramVars, read_buf, calibVars >>

bmp280_get_chip_id(s, chip_id, cb) ==
    /\ CallerReady(s)
    /\ IF s = NULL \/ chip_id = NULL
       THEN Reject("bmp280_get_chip_id", s # NULL /\ chip_id # NULL,
                   BMP280_RESULT_CODE_INVAL_ARG)
       ELSE /\ nCmds < MaxCmds
            /\ LET tok == nCmds + 1 IN
               /\ start_sequence(cb, tok)
               /\ Accept("bmp280_get_chip_id", << >>, cb, tok,
                         read_chip_id(tok, "generic_io_complete_cb"))
            /\ UNCHANGED << paramVars, read_buf, calibVars >>

\* bmp280_reset_with_delay on an instance that stays busy until its
\* completion callback has returned: a call made from inside the callback
\* (the step before the call is the continuation that invoked it) is
\* refused.
bmp280_reset_with_delay_busy_in_callback(s, cb) ==
    /\ CallerReady(s)
    /\ IF s = NULL
       THEN Reject("bmp280_reset_with_delay", s # NULL,
                   BMP280_RESULT_CODE_INVAL_ARG)
       ELSE IF last.step = "cb" /\ last.fired # << >>
       THEN Reject("bmp280_reset_with_delay", TRUE, BMP280_RESULT_CODE_BUSY)
       ELSE /\ nCmds < MaxCmds
            /\ LET tok == nCmds + 1 IN
               /\ start_sequence(cb, tok)
               /\ Accept("bmp280_reset_with_delay", << >>, cb, tok,
                         send_reset_cmd(tok, "reset_with_delay_part_2"))
            /\ UNCHANGED << paramVars, read_buf, calibVars >>

bmp280_reset_with_delay(s, cb) ==
    /\ CallerReady(s)
    /\ IF s = NULL
       THEN Reject("bmp280_reset_with_delay", s # NULL,
                   BMP280_RESULT_CODE_INVAL_ARG)
       ELSE /\ nCmds < MaxCmds
            /\ LET tok == nCmds + 1 IN
               /\ start_sequence(cb, tok)
               /\ Accept("bmp280_reset_with_delay", << >>, cb, tok,
                         send_reset_cmd(tok, "reset_with_delay_part_2"))
            /\ UNCHANGED << paramVars, read_buf, calibVars >>

bmp280_init_meas(s, cb) ==
    /\ CallerReady(s)
    /\ IF s = NULL
       THEN Reject("bmp280_init_meas", s # NULL, BMP280_RESULT_CODE_INVAL_ARG)
       ELSE /\ nCmds < MaxCmds
            /\ LET tok == nCmds + 1 IN
               /\ start_sequence(cb, tok)
               /\ Accept("bmp280_init_meas", << >>, cb, tok,
                         read_calib_data(tok, "init_meas_part_2"))
            /\ UNCHANGED << paramVars, read_buf, calibVars >>

\* bmp280_read_meas_forced_mode storing the measurement parameters before
\* it looks at is_meas_init.
bmp280_read_meas_forced_mode_stores_first(s, mt, meas_time_ms, m, cb) ==
    /\ CallerReady(s)
    /\ IF s = NULL \/ m = NULL \/ meas_time_ms = 0 \/ ~is_valid_meas_type(mt)
       THEN Reject("bmp280_read_meas_forced_mode",
                   /\ s # NULL
                   /\ m # NULL
                   /\ meas_time_ms > 0
                   /\ mt \in BMP280_MEAS_TYPE_ONLY_TEMP
                               .. BMP280_MEAS_TYPE_TEMP_AND_PRES,
                   BMP280_RESULT_CODE_INVAL_ARG)
       ELSE IF ~is_meas_init
       THEN /\ meas' = 0
            /\ meas_type' = mt
            /\ timer_period_ms' = meas_time_ms
            /\ last' = Step("call", "bmp280_read_meas_forced_mode", 0, TRUE,
                            BMP280_RESULT_CODE_INVAL_USAGE, NoRc, << >>,
                            << >>, << >>)
            /\ UNCHANGED << self, seqVars, oversamlping, filter_coeff,
                            spi_3_wire, read_buf, calibVars, pending,
                            other, memVars, nCmds, hist >>
       ELSE /\ nCmds < MaxCmds
            /\ LET tok == nCmds + 1 IN
               /\ start_sequence(cb, tok)
               /\ meas' = tok
               /\ meas_type' = mt
               /\ timer_period_ms' = meas_time_ms
               /\ Accept("bmp280_read_meas_forced_mode", << mt, meas_time_ms >>,
                         cb, tok,
                         read_ctrl_meas_reg(tok, "read_meas_forced_mode_part_2"))
            /\ UNCHANGED << oversamlping, filter_coeff, spi_3_wire, read_buf,
                            calibVars >>

\* bmp280_read_meas_forced_mode refusing a call made while a command is in
\* flight before it looks at its arguments.
bmp280_read_meas_forced_mode_busy_first(s, mt, meas_time_ms, m, cb) ==
    /\ CallerReady(s)
    /\ IF s # NULL /\ InFlight
       THEN Reject("bmp280_read_meas_forced_mode",
                   /\ m # NULL
                   /\ meas_time_ms > 0
                   /\ mt \in BMP280_MEAS_TYPE_ONLY_TEMP
                               .. BMP280_MEAS_TYPE_TEMP_AND_PRES,
                   BMP280_RESULT_CODE_BUSY)
       ELSE IF s = NULL \/ m = NULL \/ meas_time_ms = 0
                  \/ ~is_valid_meas_type(mt)
       THEN Reject("bmp280_read_meas_forced_mode",
                   /\ s # NULL
                   /\ m # NULL
                   /\ meas_time_ms > 0
                   /\ mt \in BMP280_MEAS_TYPE_ONLY_TEMP
                               .. BMP280_MEAS_TYPE_TEMP_AND_PRES,
                   BMP280_RESULT_CODE_INVAL_ARG)
       ELSE IF ~is_meas_init
       THEN Reject("bmp280_read_meas_forced_mode", TRUE,
                   BMP280_RESULT_CODE_INVAL_USAGE)
       ELSE /\ nCmds < MaxCmds
            /\ LET tok == nCmds + 1 IN
               /\ start_sequence(cb, tok)
               /\ meas' = tok
               /\ meas_type' = mt
               /\ timer_period_ms' = meas_time_ms
               /\ Accept("bmp280_read_meas_forced_mode", << mt, meas_time_ms >>,
                         cb, tok,
                         read_ctrl_meas_reg(tok, "read_meas_forced_mode_part_2"))
            /\ UNCHANGED << oversamlping, filter_coeff, spi_3_wire, read_buf,
                            calibVars >>

bmp280_read_meas_forced_mode(s, mt, meas_time_ms, m, cb) ==
    /\ CallerReady(s)
    /\ IF s = NULL \/ m = NULL \/ meas_time_ms = 0 \/ ~is_valid_meas_type(mt)
       THEN Reject("bmp280_read_meas_forced_mode",
                   /\ s # NULL
                   /\ m # NULL
                   /\ meas_time_ms > 0
                   /\ mt \in BMP280_MEAS_TYPE_ONLY_TEMP
                               .. BMP280_MEAS_TYPE_TEMP_AND_PRES,
                   BMP280_RESULT_CODE_INVAL_ARG)
       ELSE IF ~is_meas_init
       THEN Reject("bmp280_read_meas_forced_mode", TRUE,
                   BMP280_RESULT_CODE_INVAL_USAGE)
       ELSE /\ nCmds < MaxCmds
            /\ LET tok == nCmds + 1 IN
               /\ start_sequence(cb, tok)
               /\ meas' = tok
               /\ meas_type' = mt
               /\ timer_period_ms' = meas_time_ms
               /\ Accept("bmp280_read_meas_forced_mode", << mt, meas_time_ms >>,
                         cb, tok,
                         read_ctrl_meas_reg(tok, "read_meas_forced_mode_part_2"))
            /\ UNCHANGED << oversamlping, filter_coeff, spi_3_wire, read_buf,
                            calibVars >>

\* bmp280_set_temp_oversampling refusing to start while a completion
\* callback is stored, which nothing ever clears.
bmp280_set_temp_oversampling_stale_busy(s, oversampling, cb) ==
    /\ CallerReady(s)
    /\ IF s = NULL \/ ~is_valid_oversampling(oversampling)
       THEN Reject("bmp280_set_temp_oversampling",
                   /\ s # NULL
                   /\ oversampling \in BMP280_OVERSAMPLING_SKIPPED
                                         .. BMP280_OVERSAMPLING_16,
                   BMP280_RESULT_CODE_INVAL_ARG)
       ELSE IF complete_cb # NULL
       THEN Reject("bmp280_set_temp_oversampling", TRUE,
                   BMP280_RESULT_CODE_BUSY)
       ELSE /\ nCmds < MaxCmds
            /\ LET tok == nCmds + 1 IN
               /\ start_sequence(cb, tok)
               /\ oversamlping' = oversampling
               /\ Accept("bmp280_set_temp_oversampling", << oversampling >>, cb,
                         tok,
                         read_ctrl_meas_reg(tok,
                                            "read_set_temp_oversamlping_part_2"))
            /\ UNCHANGED << meas, timer_period_ms, meas_type, filter_coeff,
                            spi_3_wire, read_buf, calibVars >>

bmp280_set_temp_oversampling(s, oversampling, cb) ==
    /\ CallerReady(s)
    /\ IF s = NULL \/ ~is_valid_oversampling(oversampling)
       THEN Reject("bmp280_set_temp_oversampling",
                   /\ s # NULL
                   /\ oversampling \in BMP280_OVERSAMPLING_SKIPPED
                                         .. BMP280_OVERSAMPLING_16,
                   BMP280_RESULT_CODE_INVAL_ARG)
       ELSE /\ nCmds < MaxCmds
            /\ LET tok == nCmds + 1 IN
               /\ start_sequence(cb, tok)
               /\ oversamlping' = oversampling
               /\ Accept("bmp280_set_temp_oversampling", << oversampling >>, cb,
                         tok,
                         read_ctrl_meas_reg(tok,
                                            "read_set_temp_oversamlping_part_2"))
            /\ UNCHANGED << meas, timer_period_ms, meas_type, filter_coeff,
                            spi_3_wire, read_buf, calibVars >>

\* bmp280_set_pres_oversampling writing the option to ctrl_meas without
\* reading the register first.
bmp280_set_pres_oversampling_blind_write(s, oversampling, cb) ==
    /\ CallerReady(s)
    /\ IF s = NULL \/ ~is_valid_oversampling(oversampling)
       THEN Reject("bmp280_set_pres_oversampling",
                   /\ s # NULL
                   /\ oversampling \in BMP280_OVERSAMPLING_SKIPPED
                                         .. BMP280_OVERSAMPLING_16,
                   BMP280_RESULT_CODE_INVAL_ARG)
       ELSE /\ nCmds < MaxCmds
            /\ LET tok == nCmds + 1 IN
               /\ start_sequence(cb, tok)
               /\ oversamlping' = oversampling
               /\ Accept("bmp280_set_pres_oversampling", << oversampling >>, cb,
                         tok,
                         write_ctrl_meas_reg(
                             tok, ShiftLeft8(oversampling, 2),
                             "generic_io_complete_cb"))
            /\ UNCHANGED << meas, timer_period_ms, meas_type, filter_coeff,
                            spi_3_wire, read_buf, calibVars >>

bmp280_set_pres_oversampling(s, oversampling, cb) ==
    /\ CallerReady(s)
    /\ IF s = NULL \/ ~is_valid_oversampling(oversampling)
       THEN Reject("bmp280_set_pres_oversampling",
                   /\ s # NULL
                   /\ oversampling \in BMP280_OVERSAMPLING_SKIPPED
                                         .. BMP280_OVERSAMPLING_16,
                   BMP280_RESULT_CODE_INVAL_ARG)
       ELSE /\ nCmds < MaxCmds
            /\ LET tok == nCmds + 1 IN
               /\ start_sequence(cb, tok)
               /\ oversamlping' = oversampling
               /\ Accept("bmp280_set_pres_oversampling", << oversampling >>, cb,
                         tok,
                         read_ctrl_meas_reg(tok,
                                            "read_set_pres_oversamlping_part_2"))
            /\ UNCHANGED << meas, timer_period_ms, meas_type, filter_coeff,
                            spi_3_wire, read_buf, calibVars >>

\* The two commands below are declared in the public header and exercised
\* by the tests; their definitions are not in bmp280.c as given.  They are
\* written after the specification's step chain (read the CONFIG register,
\* write it back with the target field replaced), on the sequencer above.
bmp280_set_filter_coefficient(s, fc, cb) ==
    /\ CallerReady(s)
    /\ IF s = NULL \/ ~is_valid_filter_coeff(fc)
       THEN Reject("bmp280_set_filter_coefficient",
                   /\ s # NULL
                   /\ fc \in BMP280_FILTER_COEFF_FILTER_OFF
                               .. BMP280_FILTER_COEFF_16,
                   BMP280_RESULT_CODE_INVAL_ARG)
       ELSE /\ nCmds < MaxCmds
            /\ LET tok == nCmds + 1 IN
               /\ start_sequence(cb, tok)
               /\ filter_coeff' = fc
               /\ Accept("bmp280_set_filter_coefficient", << fc >>, cb, tok,
                         read_config_reg(tok, "set_filter_coefficient_part_2"))
            /\ UNCHANGED << meas, timer_period_ms, meas_type, oversamlping,
                            spi_3_wire, read_buf, calibVars >>

bmp280_set_spi_3_wire_interface(s, m, cb) ==
    /\ CallerReady(s)
    /\ IF s = NULL \/ ~is_valid_spi_3_wire(m)
       THEN Reject("bmp280_set_spi_3_wire_interface",
                   /\ s # NULL
                   /\ m \in BMP280_SPI_3_WIRE_DIS .. BMP280_SPI_3_WIRE_EN,
                   BMP280_RESULT_CODE_INVAL_ARG)
       ELSE /\ nCmds < MaxCmds
            /\ LET tok == nCmds + 1 IN
               /\ start_sequence(cb, tok)
               /\ spi_3_wire' = m
               /\ Accept("bmp280_set_spi_3_wire_interface", << m >>, cb, tok,
                         read_config_reg(tok, "set_spi_3_wire_interface_part_2"))
            /\ UNCHANGED << meas, timer_period_ms, meas_type, oversamlping,
                            filter_coeff, read_buf, calibVars >>

\* ------------------------------------------------------------------------
\* Collaborators
\* ------------------------------------------------------------------------
\* What a read of num_regs registers can put into the destination.
ReadData(r) ==
    IF r.arg = 1 THEN { << b >> : b \in ByteVals }
    ELSE IF r.arg = 3 THEN MeasBlocks3
    ELSE IF r.arg = 6 THEN MeasBlocks6
    ELSE CalibBlocks

\* read_regs writes the register values to its data parameter, at some
\* point between the request and the continuation.
read_regs_transfer(r, bytes) ==
    /\ ~Rejected
    /\ r \in pending
    /\ r.fn = "read_regs"
    /\ ~r.landed
    /\ bytes \in ReadData(r)
    /\ IF r.data = "chip_id"
       THEN /\ chip_id_mem' = [chip_id_mem EXCEPT ![r.owner] = bytes]
            /\ UNCHANGED read_buf
       ELSE /\ read_buf' = [i \in 1 .. BMP280_READ_BUF_SIZE |->
                               IF i <= Len(bytes) THEN bytes[i]
                               ELSE read_buf[i]]
            /\ UNCHANGED chip_id_mem
    /\ pending' = (pending \ {r})
                     \cup {[r EXCEPT !.landed = TRUE, !.got = bytes]}
    /\ last' = Step("transfer", "read_regs", r.owner, TRUE, NoRc, NoRc, bytes,
                    << >>, << >>)
    /\ UNCHANGED << self, seqVars, paramVars, calibVars, other, meas_mem,
                    nCmds, hist >>

\* ------------------------------------------------------------------------
\* Continuations
\* ------------------------------------------------------------------------
\* generic_io_complete_cb reporting every result as OK.
generic_io_complete_cb_ignores_io_rc(r, io_rc) ==
    /\ Invoked(r, "generic_io_complete_cb", io_rc)
    /\ Finish(r, "generic_io_complete_cb", io_rc, BMP280_RESULT_CODE_OK)
    /\ UNCHANGED << calibVars, meas_mem >>

generic_io_complete_cb(r, io_rc) ==
    /\ Invoked(r, "generic_io_complete_cb", io_rc)
    /\ LET rc == IF io_rc = BMP280_IO_RESULT_CODE_OK
                 THEN BMP280_RESULT_CODE_OK
                 ELSE BMP280_RESULT_CODE_IO_ERR
       IN  Finish(r, "generic_io_complete_cb", io_rc, rc)
    /\ UNCHANGED << calibVars, meas_mem >>

reset_with_delay_part_3(r) ==
    /\ Invoked(r, "reset_with_delay_part_3", NoRc)
    /\ Finish(r, "reset_with_delay_part_3", NoRc, BMP280_RESULT_CODE_OK)
    /\ UNCHANGED << calibVars, meas_mem >>

\* reset_with_delay_part_2 returning on a failed write without calling
\* execute_complete_cb.
reset_with_delay_part_2_silent_on_failure(r, io_rc) ==
    /\ Invoked(r, "reset_with_delay_part_2", io_rc)
    /\ IF io_rc # BMP280_IO_RESULT_CODE_OK
       THEN /\ pending' = pending \ {r}
            /\ hist' = NoteIo(hist, r.owner, io_rc)
            /\ last' = Step("cb", "reset_with_delay_part_2", r.owner, TRUE,
                            NoRc, io_rc, r.got, << >>, << >>)
            /\ UNCHANGED << self, seqVars, paramVars, read_buf, other,
                            chip_id_mem, nCmds, calibVars, meas_mem >>
       ELSE Continue(r, "reset_with_delay_part_2", io_rc,
                     start_timer(r.owner, BMP280_POWER_ON_RESET_DURATION_MS,
                                 "reset_with_delay_part_3"))

reset_with_delay_part_2(r, io_rc) ==
    /\ Invoked(r, "reset_with_delay_part_2", io_rc)
    /\ IF io_rc # BMP280_IO_RESULT_CODE_OK
       THEN /\ Finish(r, "reset_with_delay_part_2", io_rc,
                      BMP280_RESULT_CODE_IO_ERR)
            /\ UNCHANGED << calibVars, meas_mem >>
       ELSE Continue(r, "reset_with_delay_part_2", io_rc,
                     start_timer(r.owner, BMP280_POWER_ON_RESET_DURATION_MS,
                                 "reset_with_delay_part_3"))

read_meas_forced_mode_part_5(r, io_rc) ==
    /\ Invoked(r, "read_meas_forced_mode_part_5", io_rc)
    /\ IF io_rc # BMP280_IO_RESULT_CODE_OK
       THEN /\ Finish(r, "read_meas_forced_mode_part_5", io_rc,
                      BMP280_RESULT_CODE_IO_ERR)
            /\ UNCHANGED << calibVars, meas_mem >>
       ELSE IF ~is_valid_meas_type(meas_type)
       THEN /\ Finish(r, "read_meas_forced_mode_part_5", io_rc,
                      BMP280_RESULT_CODE_DRIVER_ERR)
            /\ UNCHANGED << calibVars, meas_mem >>
       ELSE LET calculate_pres == (meas_type = BMP280_MEAS_TYPE_TEMP_AND_PRES)
                temp_start_idx == IF calculate_pres THEN 3 ELSE 0
                temp_raw == temp_pres_bytes_to_raw_val(read_buf, temp_start_idx)
                t_fine == compensate_t_fine(calib_temp, temp_raw)
                pres_raw == temp_pres_bytes_to_raw_val(read_buf, 0)
            IN  /\ meas_mem' =
                     [meas_mem EXCEPT
                        ![meas].temperature =
                            << compensate_temp(calib_temp, temp_raw) >>,
                        ![meas].pressure =
                            IF calculate_pres
                            THEN << compensate_pres(calib_pres, pres_raw,
                                                    t_fine) >>
                            ELSE @]
                /\ Finish(r, "read_meas_forced_mode_part_5", io_rc,
                          BMP280_RESULT_CODE_OK)
                /\ UNCHANGED calibVars

read_meas_forced_mode_part_4(r) ==
    /\ Invoked(r, "read_meas_forced_mode_part_4", NoRc)
    /\ IF meas_type = BMP280_MEAS_TYPE_ONLY_TEMP
       THEN Continue(r, "read_meas_forced_mode_part_4", NoRc,
                     Req(r.owner, "read_regs", BMP280_TEMP_MSB_REG_ADDR, 3,
                         "read_buf", "read_meas_forced_mode_part_5"))
       ELSE IF meas_type = BMP280_MEAS_TYPE_TEMP_AND_PRES
       THEN Continue(r, "read_meas_forced_mode_part_4", NoRc,
                     Req(r.owner, "read_regs", BMP280_PRES_MSB_REG_ADDR, 6,
                         "read_buf", "read_meas_forced_mode_part_5"))
       ELSE /\ Finish(r, "read_meas_forced_mode_part_4", NoRc,
                      BMP280_RESULT_CODE_DRIVER_ERR)
            /\ UNCHANGED << calibVars, meas_mem >>

read_meas_forced_mode_part_3(r, io_rc) ==
    /\ Invoked(r, "read_meas_forced_mode_part_3", io_rc)
    /\ IF io_rc # BMP280_IO_RESULT_CODE_OK
       THEN /\ Finish(r, "read_meas_forced_mode_part_3", io_rc,
                      BMP280_RESULT_CODE_IO_ERR)
            /\ UNCHANGED << calibVars, meas_mem >>
       ELSE Continue(r, "read_meas_forced_mode_part_3", io_rc,
                     start_timer(r.owner, timer_period_ms,
                                 "read_meas_forced_mode_part_4"))

read_meas_forced_mode_part_2(r, io_rc) ==
    /\ Invoked(r, "read_meas_forced_mode_part_2", io_rc)
    /\ IF io_rc # BMP280_IO_RESULT_CODE_OK
       THEN /\ Finish(r, "read_meas_forced_mode_part_2", io_rc,
                      BMP280_RESULT_CODE_IO_ERR)
            /\ UNCHANGED << calibVars, meas_mem >>
       ELSE LET v0 == read_buf[1]
                \* clear the two LSb, then set them to forced mode
                v1 == BitAnd8(v0, BitNot8(3))
                write_val == BitOr8(v1, BMP280_BIT_MSK_POWER_MODE_FORCED)
            IN  Continue(r, "read_meas_forced_mode_part_2", io_rc,
                         write_ctrl_meas_reg(r.owner, write_val,
                                             "read_meas_forced_mode_part_3"))

BMP280_BIT_MSK_TEMP_OVERSAMPLING(x) == ShiftLeft8(x, 5)

BMP280_BIT_MSK_PRES_OVERSAMPLING(x) == ShiftLeft8(x, 2)

read_set_temp_oversamlping_part_2(r, io_rc) ==
    /\ Invoked(r, "read_set_temp_oversamlping_part_2", io_rc)
    /\ IF io_rc # BMP280_IO_RESULT_CODE_OK
       THEN /\ Finish(r, "read_set_temp_oversamlping_part_2", io_rc,
                      BMP280_RESULT_CODE_IO_ERR)
            /\ UNCHANGED << calibVars, meas_mem >>
       ELSE LET v0 == read_buf[1]
                \* clear the three MSb, then set them to the option
                v1 == BitAnd8(v0, BitNot8(224))
                write_val ==
                    BitOr8(v1, BMP280_BIT_MSK_TEMP_OVERSAMPLING(oversamlping))
            IN  Continue(r, "read_set_temp_oversamlping_part_2", io_rc,
                         write_ctrl_meas_reg(r.owner, write_val,
                                             "generic_io_complete_cb"))

read_set_pres_oversamlping_part_2(r, io_rc) ==
    /\ Invoked(r, "read_set_pres_oversamlping_part_2", io_rc)
    /\ IF io_rc # BMP280_IO_RESULT_CODE_OK
       THEN /\ Finish(r, "read_set_pres_oversamlping_part_2", io_rc,
                      BMP280_RESULT_CODE_IO_ERR)
            /\ UNCHANGED << calibVars, meas_mem >>
       ELSE LET v0 == read_buf[1]
                \* clear bits[4:2], then set them to the option
                v1 == BitAnd8(v0, BitNot8(28))
                write_val ==
                    BitOr8(v1, BMP280_BIT_MSK_PRES_OVERSAMPLING(oversamlping))
            IN  Continue(r, "read_set_pres_oversamlping_part_2", io_rc,
                         write_ctrl_meas_reg(r.owner, write_val,
                                             "generic_io_complete_cb"))

\* init_meas_part_2 setting the flag before it looks at the I/O result.
init_meas_part_2_flag_on_failure(r, io_rc) ==
    /\ Invoked(r, "init_meas_part_2", io_rc)
    /\ IF io_rc # BMP280_IO_RESULT_CODE_OK
       THEN /\ Finish(r, "init_meas_part_2", io_rc, BMP280_RESULT_CODE_IO_ERR)
            /\ is_meas_init' = TRUE
            /\ UNCHANGED << calib_temp, calib_pres, meas_mem >>
       ELSE /\ calib_temp' =
                   convert_temp_calib_reg_vals_to_calib_values(read_buf, 0)
            /\ calib_pres' =
                   convert_pres_calib_reg_vals_to_calib_values(read_buf, 6)
            /\ is_meas_init' = TRUE
            /\ Finish(r, "init_meas_part_2", io_rc, BMP280_RESULT_CODE_OK)
            /\ UNCHANGED meas_mem

\* init_meas_part_2 converting the read buffer before it looks at the I/O
\* result.
init_meas_part_2_converts_first(r, io_rc) ==
    /\ Invoked(r, "init_meas_part_2", io_rc)
    /\ calib_temp' = convert_temp_calib_reg_vals_to_calib_values(read_buf, 0)
    /\ calib_pres' = convert_pres_calib_reg_vals_to_calib_values(read_buf, 6)
    /\ IF io_rc # BMP280_IO_RESULT_CODE_OK
       THEN /\ Finish(r, "init_meas_part_2", io_rc, BMP280_RESULT_CODE_IO_ERR)
            /\ UNCHANGED << is_meas_init, meas_mem >>
       ELSE /\ is_meas_init' = TRUE
            /\ Finish(r, "init_meas_part_2", io_rc, BMP280_RESULT_CODE_OK)
            /\ UNCHANGED meas_mem

init_meas_part_2(r, io_rc) ==
    /\ Invoked(r, "init_meas_part_2", io_rc)
    /\ IF io_rc # BMP280_IO_RESULT_CODE_OK
       THEN /\ Finish(r, "init_meas_part_2", io_rc, BMP280_RESULT_CODE_IO_ERR)
            /\ UNCHANGED << calibVars, meas_mem >>
       ELSE /\ calib_temp' =
                   convert_temp_calib_reg_vals_to_calib_values(read_buf, 0)
            /\ calib_pres' =
                   convert_pres_calib_reg_vals_to_calib_values(read_buf, 6)
            /\ is_meas_init' = TRUE
            /\ Finish(r, "init_meas_part_2", io_rc, BMP280_RESULT_CODE_OK)
            /\ UNCHANGED meas_mem

\* Continuations of the two commands whose definitions are not in bmp280.c.
set_filter_coefficient_part_2(r, io_rc) ==
    /\ Invoked(r, "set_filter_coefficient_part_2", io_rc)
    /\ IF io_rc # BMP280_IO_RESULT_CODE_OK
       THEN /\ Finish(r, "set_filter_coefficient_part_2", io_rc,
                      BMP280_RESULT_CODE_IO_ERR)
            /\ UNCHANGED << calibVars, meas_mem >>
       ELSE LET v0 == read_buf[1]
                v1 == BitAnd8(v0, BitNot8(28))
                write_val == BitOr8(v1, ShiftLeft8(filter_coeff, 2))
            IN  Continue(r, "set_filter_coefficient_part_2", io_rc,
                         write_config_reg(r.owner, write_val,
                                          "generic_io_complete_cb"))

set_spi_3_wire_interface_part_2(r, io_rc) ==
    /\ Invoked(r, "set_spi_3_wire_interface_part_2", io_rc)
    /\ IF io_rc # BMP280_IO_RESULT_CODE_OK
       THEN /\ Finish(r, "set_spi_3_wire_interface_part_2", io_rc,
                      BMP280_RESULT_CODE_IO_ERR)
            /\ UNCHANGED << calibVars, meas_mem >>
       ELSE LET v0 == read_buf[1]
                v1 == BitAnd8(v0, BitNot8(1))
                write_val == BitOr8(v1, ShiftLeft8(spi_3_wire, 0))
            IN  Continue(r, "set_spi_3_wire_interface_part_2", io_rc,
                         write_config_reg(r.owner, write_val,
                                          "generic_io_complete_cb"))

\* ------------------------------------------------------------------------
\* Specification
\* ------------------------------------------------------------------------
\* Argument lists of the public functions: every combination the checks
\* accept, and every list with a single argument the checks refuse.
CreateArgs ==
    { a \in PtrArgs \X CfgArgs \X PtrArgs :
        LET ptrs == << a[1], a[2].cfg, a[2].get_inst_buf, a[2].read_regs,
                       a[2].write_reg, a[2].start_timer, a[3] >>
        IN  Cardinality({ i \in 1 .. 7 : ptrs[i] = NULL }) <= 1 }

GetChipIdArgs ==
    { a \in SelfArgs \X PtrArgs \X CbArgs :
        (a[1] = NULL \/ a[2] = NULL) => (a[1] # a[2] /\ a[3] = CompleteCb) }

SelfCbArgs ==
    { a \in SelfArgs \X CbArgs : a[1] = NULL => a[2] = CompleteCb }

ReadMeasArgs ==
    { a \in SelfArgs \X MeasTypeArgs \X MeasTimeArgs \X PtrArgs \X CbArgs :
        LET bad == { i \in 1 .. 4 :
                       \/ i = 1 /\ a[1] = NULL
                       \/ i = 2 /\ ~(a[2] \in {BMP280_MEAS_TYPE_ONLY_TEMP,
                                               BMP280_MEAS_TYPE_TEMP_AND_PRES})
                       \/ i = 3 /\ a[3] = 0
                       \/ i = 4 /\ a[4] = NULL }
        IN  bad # {} => (Cardinality(bad) = 1 /\ a[5] = CompleteCb) }

SettingArgs(Vals, Valid) ==
    { a \in SelfArgs \X Vals \X CbArgs :
        (a[1] = NULL \/ ~(a[2] \in Valid)) =>
            /\ ~(a[1] = NULL /\ ~(a[2] \in Valid))
            /\ a[3] = CompleteCb }

CreateStep ==
    \E a \in CreateArgs : bmp280_create(a[1], a[2], a[3])

CommandStep ==
    \/ \E a \in GetChipIdArgs : bmp280_get_chip_id(a[1], a[2], a[3])
    \/ \E a \in SelfCbArgs : bmp280_reset_with_delay(a[1], a[2])
    \/ \E a \in SelfCbArgs : bmp280_init_meas(a[1], a[2])
    \/ \E a \in ReadMeasArgs :
          bmp280_read_meas_forced_mode(a[1], a[2], a[3], a[4], a[5])
    \/ \E a \in SettingArgs(OversamplingArgs, 0 .. 5) :
          bmp280_set_temp_oversampling(a[1], a[2], a[3])
    \/ \E a \in SettingArgs(OversamplingArgs, 0 .. 5) :
          bmp280_set_pres_oversampling(a[1], a[2], a[3])
    \/ \E a \in SettingArgs(FilterCoeffArgs, 0 .. 4) :
          bmp280_set_filter_coefficient(a[1], a[2], a[3])
    \/ \E a \in SettingArgs(Spi3WireArgs, 0 .. 1) :
          bmp280_set_spi_3_wire_interface(a[1], a[2], a[3])

CollaboratorStep ==
    \/ \E r \in pending : \E bytes \in ReadData(r) :
          read_regs_transfer(r, bytes)
    \/ \E r \in pending, io_rc \in IoRcs : generic_io_complete_cb(r, io_rc)
    \/ \E r \in pending, io_rc \in IoRcs : reset_with_delay_part_2(r, io_rc)
    \/ \E r \in pending : reset_with_delay_part_3(r)
    \/ \E r \in pending, io_rc \in IoRcs :
          read_meas_forced_mode_part_2(r, io_rc)
    \/ \E r \in pending, io_rc \in IoRcs :
          read_meas_forced_mode_part_3(r, io_rc)
    \/ \E r \in pending : read_meas_forced_mode_part_4(r)
    \/ \E r \in pending, io_rc \in IoRcs :
          read_meas_forced_mode_part_5(r, io_rc)
    \/ \E r \in pending, io_rc \in IoRcs :
          read_set_temp_oversamlping_part_2(r, io_rc)
    \/ \E r \in pending, io_rc \in IoRcs :
          read_set_pres_oversamlping_part_2(r, io_rc)
    \/ \E r \in pending, io_rc \in IoRcs : init_meas_part_2(r, io_rc)
    \/ \E r \in pending, io_rc \in IoRcs :
          set_filter_coefficient_part_2(r, io_rc)
    \/ \E r \in pending, io_rc \in IoRcs :
          set_spi_3_wire_interface_part_2(r, io_rc)

\* From nothing created: the caller creates the instance and gets up to
\* MaxCmds commands accepted.
Next == CreateStep \/ CommandStep \/ CollaboratorStep

Spec == Init /\ [][Next]_vars

\* From an instance that bmp280_create and a bmp280_init_meas with a null
\* callback have set up: the caller starts a measurement and gets up to
\* MaxCmds commands accepted, the measurement included; it makes no call
\* that a synchronous check refuses.
InitMeas ==
    /\ self = "ptr"
    /\ is_meas_init = TRUE
    /\ complete_cb = NULL
    /\ complete_cb_user_data = 1
    /\ meas = 0
    /\ timer_period_ms = 0
    /\ meas_type = 0
    /\ oversamlping = 0
    /\ filter_coeff = 0
    /\ spi_3_wire = 0
    /\ read_buf \in MeasCalibBlocks
    /\ calib_temp = convert_temp_calib_reg_vals_to_calib_values(read_buf, 0)
    /\ calib_pres = convert_pres_calib_reg_vals_to_calib_values(read_buf, 6)
    /\ pending = {}
    /\ other = NoInstance
    /\ chip_id_mem = [t \in Tokens |-> << >>]
    /\ meas_mem = [t \in Tokens |-> [temperature |-> << >>, pressure |-> << >>]]
    /\ nCmds = 0
    /\ hist = [t \in Tokens |-> NoHist]
    /\ last = [step |-> "init", name |-> "none", owner |-> 0, valid |-> TRUE,
               busy |-> FALSE, ret |-> NoRc, io_rc |-> NoRc, v |-> << >>,
               issued |-> << >>, fired |-> << >>]

MeasScenario ==
    /\ last'.ret = BMP280_RESULT_CODE_OK
    /\ nCmds = 0 => last'.name = "bmp280_read_meas_forced_mode"

NextMeas ==
    \/ CommandStep /\ MeasScenario
    \/ CollaboratorStep

SpecMeas == InitMeas /\ [][NextMeas]_vars

\* Two instances that bmp280_create has set up in distinct storage.  Every
\* function of the driver reaches the instance through its self parameter
\* only (the file has no variable of static storage duration), so a step
\* works on the instance it is given; SwitchInstance makes the other
\* instance the one the next call or continuation is given.  The caller
\* passes arguments in the documented ranges.
InitTwo ==
    /\ self = "ptr"
    /\ is_meas_init = FALSE
    /\ complete_cb = NULL
    /\ complete_cb_user_data = 0
    /\ meas = 0
    /\ timer_period_ms = 0
    /\ meas_type = 0
    /\ oversamlping = 0
    /\ filter_coeff = 0
    /\ spi_3_wire = 0
    /\ read_buf = [i \in 1 .. BMP280_READ_BUF_SIZE |-> 0]
    /\ calib_temp = [dig_T1 |-> 0, dig_T2 |-> 0, dig_T3 |-> 0]
    /\ calib_pres = [dig_P1 |-> 0, dig_P2 |-> 0, dig_P3 |-> 0, dig_P4 |-> 0,
                     dig_P5 |-> 0, dig_P6 |-> 0, dig_P7 |-> 0, dig_P8 |-> 0,
                     dig_P9 |-> 0]
    /\ pending = {}
    /\ other = [InstanceState EXCEPT !.self = "ptr2"]
    /\ chip_id_mem = [t \in Tokens |-> << >>]
    /\ meas_mem = [t \in Tokens |-> [temperature |-> << >>, pressure |-> << >>]]
    /\ nCmds = 0
    /\ hist = [t \in Tokens |-> NoHist]
    /\ last = [step |-> "init", name |-> "none", owner |-> 0, valid |-> TRUE,
               busy |-> FALSE, ret |-> NoRc, io_rc |-> NoRc, v |-> << >>,
               issued |-> << >>, fired |-> << >>]

SwitchInstance ==
    /\ ~Rejected
    /\ last.step # "switch"
    /\ nCmds > 0
    /\ other' = InstanceState
    /\ self' = other.self
    /\ complete_cb' = other.complete_cb
    /\ complete_cb_user_data' = other.complete_cb_user_data
    /\ meas' = other.meas
    /\ timer_period_ms' = other.timer_period_ms
    /\ meas_type' = other.meas_type
    /\ oversamlping' = other.oversamlping
    /\ filter_coeff' = other.filter_coeff
    /\ spi_3_wire' = other.spi_3_wire
    /\ read_buf' = other.read_buf
    /\ calib_temp' = other.calib_temp
    /\ calib_pres' = other.calib_pres
    /\ is_meas_init' = other.is_meas_init
    /\ pending' = other.pending
    /\ last' = Step("switch", "none", 0, TRUE, NoRc, NoRc, << >>, << >>,
                    << >>)
    /\ UNCHANGED << memVars, nCmds, hist >>

\* The first command goes to the first instance, and commands come with a
\* completion callback.
TwoScenario ==
    /\ last'.valid
    /\ last'.ret = BMP280_RESULT_CODE_OK => hist'[last'.owner].cb # NULL

NextTwo ==
    \/ CommandStep /\ TwoScenario
    \/ CollaboratorStep
    \/ SwitchInstance

SpecTwo == InitTwo /\ [][NextTwo]_vars

\* The caller passes every value a uint8_t argument can hold, and
\* measurement times from 0 upwards, to the commands that take an
\* enumerated argument or a measurement time; the instance exists, with or
\* without calibration and with or without a callback left by an earlier
\* command, and the pointers passed are not null.  One call is made, and
\* the read it requests may deliver its byte.
Uint8Args == 0 .. 255
MeasTimeValues == {0, 1, 50, 65535}

InitArgs ==
    /\ self = "ptr"
    /\ is_meas_init \in BOOLEAN
    /\ complete_cb \in CbArgs
    /\ complete_cb_user_data = 0
    /\ meas = 0
    /\ timer_period_ms = 0
    /\ meas_type = 0
    /\ oversamlping = 0
    /\ filter_coeff = 0
    /\ spi_3_wire = 0
    /\ read_buf = [i \in 1 .. BMP280_READ_BUF_SIZE |-> 0]
    /\ calib_temp = [dig_T1 |-> 0, dig_T2 |-> 0, dig_T3 |-> 0]
    /\ calib_pres = [dig_P1 |-> 0, dig_P2 |-> 0, dig_P3 |-> 0, dig_P4 |-> 0,
                     dig_P5 |-> 0, dig_P6 |-> 0, dig_P7 |-> 0, dig_P8 |-> 0,
                     dig_P9 |-> 0]
    /\ pending = {}
    /\ other = NoInstance
    /\ chip_id_mem = [t \in Tokens |-> << >>]
    /\ meas_mem = [t \in Tokens |-> [temperature |-> << >>, pressure |-> << >>]]
    /\ nCmds = 0
    /\ hist = [t \in Tokens |-> NoHist]
    /\ last = [step |-> "init", name |-> "none", owner |-> 0, valid |-> TRUE,
               busy |-> FALSE, ret |-> NoRc, io_rc |-> NoRc, v |-> << >>,
               issued |-> << >>, fired |-> << >>]

FirstCall == nCmds = 0

NextArgs ==
    \/ \E mt \in Uint8Args, meas_time_ms \in MeasTimeValues, cb \in CbArgs :
          FirstCall
              /\ bmp280_read_meas_forced_mode(self, mt, meas_time_ms, "ptr", cb)
    \/ \E oversampling \in Uint8Args, cb \in CbArgs :
          FirstCall /\ bmp280_set_temp_oversampling(self, oversampling, cb)
    \/ \E oversampling \in Uint8Args, cb \in CbArgs :
          FirstCall /\ bmp280_set_pres_oversampling(self, oversampling, cb)
    \/ \E fc \in Uint8Args, cb \in CbArgs :
          FirstCall /\ bmp280_set_filter_coefficient(self, fc, cb)
    \/ \E m \in Uint8Args, cb \in CbArgs :
          FirstCall /\ bmp280_set_spi_3_wire_interface(self, m, cb)
    \/ \E r \in pending : \E bytes \in ReadData(r) :
          read_regs_transfer(r, bytes)

SpecArgs == InitArgs /\ [][NextArgs]_vars

\* From an instance that bmp280_create and a successful bmp280_init_meas
\* have set up: the caller gets up to MaxCmds commands accepted, each
\* called with valid arguments and a callback; each collaborator eventually
\* invokes the continuation of every request it was given.
InitLive ==
    /\ InitMeas
    /\ read_buf = default_calib_data

AcceptedStep ==
    \/ bmp280_get_chip_id(self, "ptr", CompleteCb)
    \/ bmp280_reset_with_delay(self, CompleteCb)
    \/ bmp280_init_meas(self, CompleteCb)
    \/ \E mt \in {BMP280_MEAS_TYPE_ONLY_TEMP, BMP280_MEAS_TYPE_TEMP_AND_PRES} :
          bmp280_read_meas_forced_mode(self, mt, 50, "ptr", CompleteCb)
    \/ bmp280_set_temp_oversampling(self, BMP280_OVERSAMPLING_1, CompleteCb)
    \/ bmp280_set_pres_oversampling(self, BMP280_OVERSAMPLING_8, CompleteCb)
    \/ bmp280_set_filter_coefficient(self, BMP280_FILTER_COEFF_2, CompleteCb)
    \/ bmp280_set_spi_3_wire_interface(self, BMP280_SPI_3_WIRE_EN, CompleteCb)

NextLive == AcceptedStep \/ CollaboratorStep

\* Weak fairness of the collaborators, WF_vars(CollaboratorStep), written
\* out: a continuation can be invoked exactly when a request is outstanding
\* (Invoked asks for nothing else when the result is a failure or a timer
\* expiry, and the step takes the request out of pending), so
\* ENABLED <<CollaboratorStep>>_vars is pending # {}.
CollaboratorFairness ==
    []<>(pending = {}) \/ []<><<CollaboratorStep>>_vars

SpecLive == InitLive /\ [][NextLive]_vars /\ CollaboratorFairness

\* The conversion of three data bytes to a raw value, as
\* read_meas_forced_mode_part_5 applies it to the read buffer: at index 0
\* for a temperature-only measurement, at index 3 for the temperature of a
\* temperature-and-pressure measurement.  The third byte takes every value.
RawMsbValues == {0, 1, 127, 128, 255}
RawLsbValues == {0, 15, 16, 255}

TempStartIdx ==
    IF meas_type = BMP280_MEAS_TYPE_TEMP_AND_PRES THEN 3 ELSE 0

InitRaw ==
    /\ self = "ptr"
    /\ is_meas_init = TRUE
    /\ complete_cb = NULL
    /\ complete_cb_user_data = 0
    /\ meas = 0
    /\ timer_period_ms = 0
    /\ meas_type \in {BMP280_MEAS_TYPE_ONLY_TEMP,
                      BMP280_MEAS_TYPE_TEMP_AND_PRES}
    /\ oversamlping = 0
    /\ filter_coeff = 0
    /\ spi_3_wire = 0
    /\ \E b0 \in RawMsbValues, b1 \in RawLsbValues, b2 \in Uint8Args :
           read_buf = [i \in 1 .. BMP280_READ_BUF_SIZE |->
                          IF i = TempStartIdx + 1 THEN b0
                          ELSE IF i = TempStartIdx + 2 THEN b1
                          ELSE IF i = TempStartIdx + 3 THEN b2
                          ELSE default_calib_data[i]]
    /\ calib_temp =
           convert_temp_calib_reg_vals_to_calib_values(default_calib_data, 0)
    /\ calib_pres =
           convert_pres_calib_reg_vals_to_calib_values(default_calib_data, 6)
    /\ pending = {}
    /\ other = NoInstance
    /\ chip_id_mem = [t \in Tokens |-> << >>]
    /\ meas_mem = [t \in Tokens |-> [temperature |-> << >>, pressure |-> << >>]]
    /\ nCmds = 0
    /\ hist = [t \in Tokens |-> NoHist]
    /\ last = [step |-> "init", name |-> "none", owner |-> 0, valid |-> TRUE,
               busy |-> FALSE, ret |-> NoRc, io_rc |-> NoRc, v |-> << >>,
               issued |-> << >>, fired |-> << >>]

\* last.v takes the value the conversion returns.
NextRaw ==
    /\ last.step = "init"
    /\ last' = Step("convert", "temp_pres_bytes_to_raw_val", 0, TRUE, NoRc,
                    NoRc, << temp_pres_bytes_to_raw_val(read_buf, TempStartIdx) >>,
                    << >>, << >>)
    /\ UNCHANGED << self, instVars, pending, other, memVars, nCmds, hist >>

SpecRaw == InitRaw /\ [][NextRaw]_vars

\* ------------------------------------------------------------------------
\* Properties
\* ------------------------------------------------------------------------
Completed(t) == hist[t].op # "none" /\ hist[t].result # << >>

\* The step just taken was continuation `name` running after a successful
\* one-byte register read and issuing a register write.
WroteBack(name) ==
    /\ last.step = "cb"
    /\ last.name = name
    /\ last.io_rc = BMP280_IO_RESULT_CODE_OK
    /\ Len(last.v) = 1
    /\ Len(last.issued) = 1

\* C1: a public command called with valid arguments while an accepted
\* command has not reached its completion returns BUSY and makes no
\* read_regs, write_reg or start_timer call.
C1_BusyWhileInFlight ==
    (/\ last.step = "call"
     /\ last.valid
     /\ last.busy
     /\ last.ret # BMP280_RESULT_CODE_INVAL_USAGE)
        => (last.ret = BMP280_RESULT_CODE_BUSY /\ last.issued = << >>)

\* C2: in every reachable state the instance has at most one outstanding
\* request (register read, register write or timer wait) whose continuation
\* has not been invoked.
C2_OneOutstandingRequest == Cardinality(pending) <= 1

\* C3: the completion callback of an accepted command is invoked at most
\* once, and only when no I/O or timer step issued for that command is
\* still outstanding.
C3_CompletionOnceAfterSteps ==
    \A t \in Tokens :
        /\ Len(hist[t].delivered) <= 1
        /\ hist[t].delivered # << >> => ~(\E r \in pending : r.owner = t)

\* C4: once a command has reached its completion point (with OK or with
\* IO_ERR, callback null or not) and nothing is in flight, the next valid
\* command is accepted: it returns OK and issues its first I/O request.
C4_AcceptedAfterCompletion ==
    (/\ last.step = "call"
     /\ last.valid
     /\ ~last.busy
     /\ last.ret # BMP280_RESULT_CODE_INVAL_USAGE
     /\ \E t \in Tokens : Completed(t))
        => (/\ last.ret = BMP280_RESULT_CODE_OK
            /\ Len(last.issued) = 1
            /\ last.issued[1].fn \in {"read_regs", "write_reg"})

\* C4 witness: a command with a callback has ended with IO_ERR and the next
\* command has been accepted.
C4_Witness ==
    /\ last.step = "call"
    /\ last.ret = BMP280_RESULT_CODE_OK
    /\ ~last.busy
    /\ last.owner = 2
    /\ hist[1].cb # NULL
    /\ hist[1].result = << BMP280_RESULT_CODE_IO_ERR >>
    /\ Len(last.issued) = 1

\* C5: when a register read or write step of a command reports a non-OK
\* I/O result, the command's completion callback receives IO_ERR and no
\* further read_regs, write_reg or start_timer call is made for it.
C5_IoFailureEndsCommand ==
    \A t \in Tokens :
        hist[t].failed =>
            /\ ~(\E r \in pending : r.owner = t)
            /\ hist[t].cb # NULL =>
                   hist[t].delivered = << BMP280_RESULT_CODE_IO_ERR >>

\* C6: bmp280_read_meas_forced_mode called with otherwise valid arguments
\* when no bmp280_init_meas sequence has completed successfully (never
\* called, in flight, or failed) returns INVAL_USAGE and issues no request.
C6_ReadMeasBeforeInit ==
    (/\ last.step = "call"
     /\ last.name = "bmp280_read_meas_forced_mode"
     /\ last.valid
     /\ ~(\E t \in Tokens :
            /\ hist[t].op = "bmp280_init_meas"
            /\ hist[t].result = << BMP280_RESULT_CODE_OK >>))
        => (/\ last.ret = BMP280_RESULT_CODE_INVAL_USAGE
            /\ last.issued = << >>)

\* C6 witness: the measurement is requested after an init_meas that failed.
C6_Witness ==
    /\ last.step = "call"
    /\ last.name = "bmp280_read_meas_forced_mode"
    /\ last.ret = BMP280_RESULT_CODE_INVAL_USAGE
    /\ hist[1].op = "bmp280_init_meas"
    /\ hist[1].result = << BMP280_RESULT_CODE_IO_ERR >>

\* C7: the initialised flag is false after create, becomes true only in the
\* step in which the calibration read of an init_meas completes with I/O
\* OK, and once true stays true.
C7_FlagSetOnlyByInitMeas ==
    [][/\ (last'.step = "create" /\ last'.ret = BMP280_RESULT_CODE_OK)
              => ~is_meas_init'
       /\ (self # NULL /\ ~is_meas_init /\ is_meas_init')
              => (/\ last'.name = "init_meas_part_2"
                  /\ last'.io_rc = BMP280_IO_RESULT_CODE_OK
                  /\ hist[last'.owner].op = "bmp280_init_meas")
       /\ (self # NULL /\ is_meas_init) => is_meas_init']_vars

\* C7 witness: the flag is set and a later init_meas has failed.
C7_Witness ==
    /\ is_meas_init
    /\ hist[1].op = "bmp280_init_meas"
    /\ hist[1].result = << BMP280_RESULT_CODE_OK >>
    /\ hist[2].op = "bmp280_init_meas"
    /\ hist[2].result = << BMP280_RESULT_CODE_IO_ERR >>

\* C8: for every byte v read from 0xF4 and every valid oversampling o,
\* set_temp_oversampling writes to 0xF4 a byte with bits[7:5] = o and
\* bits[4:0] those of v; set_pres_oversampling writes a byte with
\* bits[4:2] = o and bits[7:5], bits[1:0] those of v.
C8_OversamplingWriteBack ==
    /\ WroteBack("read_set_temp_oversamlping_part_2") =>
           /\ last.issued[1].fn = "write_reg"
           /\ last.issued[1].addr = BMP280_CTRL_MEAS_REG_ADDR
           /\ Field(last.issued[1].arg, 7, 5) = hist[last.owner].arg[1]
           /\ Field(last.issued[1].arg, 4, 0) = Field(last.v[1], 4, 0)
    /\ WroteBack("read_set_pres_oversamlping_part_2") =>
           /\ last.issued[1].fn = "write_reg"
           /\ last.issued[1].addr = BMP280_CTRL_MEAS_REG_ADDR
           /\ Field(last.issued[1].arg, 4, 2) = hist[last.owner].arg[1]
           /\ Field(last.issued[1].arg, 7, 5) = Field(last.v[1], 7, 5)
           /\ Field(last.issued[1].arg, 1, 0) = Field(last.v[1], 1, 0)

C10_ForcedModeWriteBack ==
    WroteBack("read_meas_forced_mode_part_2") =>
        /\ last.issued[1].fn = "write_reg"
        /\ last.issued[1].addr = BMP280_CTRL_MEAS_REG_ADDR
        /\ Field(last.issued[1].arg, 1, 0) = BMP280_BIT_MSK_POWER_MODE_FORCED
        /\ Field(last.issued[1].arg, 7, 2) = Field(last.v[1], 7, 2)

\* C11: an accepted read_meas_forced_mode whose steps all succeed issues, in
\* this order and each from the continuation of the one before:
\* read_regs(0xF4, 1); write_reg(0xF4, ..); start_timer for the caller's
\* meas_time_ms; read_regs(0xFA, 3) for ONLY_TEMP or read_regs(0xF7, 6) for
\* TEMP_AND_PRES; then its completion callback with OK.
C11_ReadMeasSequence ==
    LET mine == hist[last.owner]
        one(fn, addr, arg) ==
            /\ Len(last.issued) = 1
            /\ last.issued[1].fn = fn
            /\ last.issued[1].addr = addr
            /\ last.issued[1].arg = arg
    IN  /\ (/\ last.step = "call"
            /\ last.name = "bmp280_read_meas_forced_mode"
            /\ last.ret = BMP280_RESULT_CODE_OK)
               => one("read_regs", BMP280_CTRL_MEAS_REG_ADDR, 1)
        /\ (/\ last.step = "cb"
            /\ last.name = "read_meas_forced_mode_part_2"
            /\ last.io_rc = BMP280_IO_RESULT_CODE_OK)
               => /\ Len(last.issued) = 1
                  /\ last.issued[1].fn = "write_reg"
                  /\ last.issued[1].addr = BMP280_CTRL_MEAS_REG_ADDR
        /\ (/\ last.step = "cb"
            /\ last.name = "read_meas_forced_mode_part_3"
            /\ last.io_rc = BMP280_IO_RESULT_CODE_OK)
               => one("start_timer", 0, mine.arg[2])
        /\ (last.step = "cb" /\ last.name = "read_meas_forced_mode_part_4")
               => IF mine.arg[1] = BMP280_MEAS_TYPE_ONLY_TEMP
                  THEN one("read_regs", BMP280_TEMP_MSB_REG_ADDR, 3)
                  ELSE one("read_regs", BMP280_PRES_MSB_REG_ADDR, 6)
        /\ (/\ last.step = "cb"
            /\ last.name = "read_meas_forced_mode_part_5"
            /\ last.io_rc = BMP280_IO_RESULT_CODE_OK)
               => /\ last.issued = << >>
                  /\ mine.result = << BMP280_RESULT_CODE_OK >>
                  /\ mine.cb # NULL =>
                         last.fired = << [user_data |-> last.owner,
                                          rc |-> BMP280_RESULT_CODE_OK] >>

\* C12: an accepted reset_with_delay issues write_reg(0xE0, 0xB6); if the
\* write succeeds it starts a timer of 2 ms and its callback gets OK only
\* when that timer expires, not when the write completes; if the write
\* fails its callback gets IO_ERR and start_timer is never called.
C12_ResetWithDelaySequence ==
    LET mine == hist[last.owner]
        delivers(rc) ==
            mine.cb # NULL =>
                last.fired = << [user_data |-> last.owner, rc |-> rc] >>
    IN  /\ (/\ last.step = "call"
            /\ last.name = "bmp280_reset_with_delay"
            /\ last.ret = BMP280_RESULT_CODE_OK)
               => last.issued =
                      << send_reset_cmd(last.owner, "reset_with_delay_part_2") >>
        /\ (/\ last.step = "cb"
            /\ last.name = "reset_with_delay_part_2"
            /\ last.io_rc = BMP280_IO_RESULT_CODE_OK)
               => /\ last.issued =
                        << start_timer(last.owner,
                                       BMP280_POWER_ON_RESET_DURATION_MS,
                                       "reset_with_delay_part_3") >>
                  /\ last.fired = << >>
        /\ (/\ last.step = "cb"
            /\ last.name = "reset_with_delay_part_2"
            /\ last.io_rc # BMP280_IO_RESULT_CODE_OK)
               => /\ last.issued = << >>
                  /\ mine.calls = 1
                  /\ delivers(BMP280_RESULT_CODE_IO_ERR)
        /\ (last.step = "cb" /\ last.name = "reset_with_delay_part_3")
               => delivers(BMP280_RESULT_CODE_OK)
        /\ \A t \in Tokens :
               (/\ hist[t].op = "bmp280_reset_with_delay"
                /\ hist[t].delivered # << >>)
                   => hist[t].result # << >>

\* C13: a public command that fails a synchronous check (null instance,
\* null output pointer, invalid enumerated argument, zero measurement time,
\* calibration not initialised) returns the error, makes no collaborator
\* call and leaves the instance as it was: the stored callback and user
\* data, the command parameters, the calibration values, the outstanding
\* requests, the commands in flight and the caller's output locations.
C13_RefusedCallChangesNothing ==
    [][(last'.step = "call" /\ last'.ret # BMP280_RESULT_CODE_OK)
           => /\ last'.ret \in {BMP280_RESULT_CODE_INVAL_ARG,
                                BMP280_RESULT_CODE_INVAL_USAGE}
              /\ last'.issued = << >>
              /\ last'.fired = << >>
              /\ UNCHANGED << self, instVars, pending, memVars, nCmds,
                              hist >>]_vars

\* C13 witness: a measurement is refused for want of calibration on an
\* instance that holds the callback and the result of an earlier command.
C13_Witness ==
    /\ last.step = "call"
    /\ last.name = "bmp280_read_meas_forced_mode"
    /\ last.ret = BMP280_RESULT_CODE_INVAL_USAGE
    /\ complete_cb # NULL
    /\ hist[1].op = "bmp280_get_chip_id"
    /\ hist[1].result = << BMP280_RESULT_CODE_OK >>
    /\ chip_id_mem[1] # << >>

\* C14: bmp280_create returns INVAL_ARG without calling get_inst_buf when
\* the instance output pointer is null, the config is null, or get_inst_buf,
\* read_regs, write_reg or start_timer in the config is null; otherwise it
\* calls get_inst_buf exactly once and returns NO_MEM if that returns null,
\* else OK with the instance handle equal to the returned buffer.
C14_CreateOutcome ==
    last.step = "create" =>
        LET inst == last.v[1]
            cfg == last.v[2]
            buf == last.v[3]
        IN  IF \/ inst = NULL
               \/ cfg.cfg = NULL
               \/ cfg.get_inst_buf = NULL
               \/ cfg.read_regs = NULL
               \/ cfg.write_reg = NULL
               \/ cfg.start_timer = NULL
            THEN /\ last.ret = BMP280_RESULT_CODE_INVAL_ARG
                 /\ last.issued = << >>
                 /\ self = NULL
            ELSE /\ Len(last.issued) = 1
                 /\ last.issued[1].fn = "get_inst_buf"
                 /\ IF buf = NULL
                    THEN /\ last.ret = BMP280_RESULT_CODE_NO_MEM
                         /\ self = NULL
                    ELSE /\ last.ret = BMP280_RESULT_CODE_OK
                         /\ self = buf

\* C14 witness: a config whose start_timer is null has been refused.
C14_Witness ==
    /\ last.step = "create"
    /\ last.v[1] # NULL
    /\ last.v[2].cfg # NULL
    /\ last.v[2].start_timer = NULL
    /\ last.ret = BMP280_RESULT_CODE_INVAL_ARG

\* C15: a command given a null completion callback is accepted like one
\* with a callback, and when it ends (its last step done or an I/O step
\* failed) no callback is invoked.
C15_NullCallbackSilent ==
    /\ (/\ last.step = "call"
        /\ last.valid
        /\ last.ret # BMP280_RESULT_CODE_INVAL_USAGE
        /\ ~last.busy)
           => (last.ret = BMP280_RESULT_CODE_OK /\ Len(last.issued) = 1)
    /\ (/\ last.step = "cb"
        /\ hist[last.owner].cb = NULL
        /\ hist[last.owner].result # << >>)
           => last.fired = << >>

\* C16: a command called with valid arguments while another command is in
\* flight is rejected with BUSY and leaves the in-flight command untouched:
\* the stored completion callback and user data are still those of the
\* in-flight command, and no request has been added to its outstanding one.
C16_BusyRejectLeavesSequence ==
    (/\ last.step = "call"
     /\ last.valid
     /\ last.busy
     /\ last.ret # BMP280_RESULT_CODE_INVAL_USAGE)
        => \E t \in Tokens :
               /\ t # last.owner
               /\ hist[t].op # "none"
               /\ hist[t].result = << >>
               /\ complete_cb = hist[t].cb
               /\ complete_cb_user_data = t
               /\ \A r \in pending : r.owner = t

\* C18: IO_ERR is never the return value of a public call; a call that
\* passes its synchronous checks returns OK whatever the I/O results are
\* later; an I/O failure is reported only as the argument of the completion
\* callback, by the continuation that was given the failed result.
C18_IoErrOnlyThroughCallback ==
    /\ last.step \in {"call", "create"} =>
           /\ last.ret # BMP280_RESULT_CODE_IO_ERR
           /\ last.fired = << >>
    /\ (last.step = "call" /\ last.issued # << >>) =>
           last.ret = BMP280_RESULT_CODE_OK
    /\ last.step = "cb" =>
           /\ last.ret = NoRc
           /\ \A i \in 1 .. Len(last.fired) :
                  (last.fired[i].rc = BMP280_RESULT_CODE_IO_ERR)
                      <=> (last.io_rc \notin {NoRc, BMP280_IO_RESULT_CODE_OK})
           /\ last.io_rc \notin {NoRc, BMP280_IO_RESULT_CODE_OK} =>
                  /\ last.issued = << >>
                  /\ hist[last.owner].result = << BMP280_RESULT_CODE_IO_ERR >>

\* C18 witness: a command that returned OK has later had IO_ERR delivered
\* to its callback after its second step failed.
C18_Witness ==
    /\ last.step = "cb"
    /\ last.io_rc = BMP280_IO_RESULT_CODE_ERR
    /\ last.fired = << [user_data |-> last.owner,
                        rc |-> BMP280_RESULT_CODE_IO_ERR] >>
    /\ hist[last.owner].calls = 2

\* read_meas_forced_mode_part_5 has just computed a measurement of type mt
\* from the first n bytes of read_buf.
Compensated(mt, n, bytes) ==
    /\ last.step = "cb"
    /\ last.name = "read_meas_forced_mode_part_5"
    /\ last.io_rc = BMP280_IO_RESULT_CODE_OK
    /\ meas_type = mt
    /\ SubSeq(read_buf, 1, n) = bytes

\* C19: with calibration T1=27504, T2=26435, T3=-1000, P1=36477, P2=-10685,
\* P3=3024, P4=2855, P5=140, P6=-7, P7=15500, P8=-14600, P9=6000, a
\* TEMP_AND_PRES measurement computed from the data bytes 0x65, 0x5A, 0xC0,
\* 0x7E, 0xED, 0x00 stores pressure 25767233, and one computed from 0x55,
\* 0x73, 0x00, 0x7A, 0x12, 0x00 stores pressure 28376756.
C19_PressureExamples ==
    (/\ calib_temp = [dig_T1 |-> 27504, dig_T2 |-> 26435, dig_T3 |-> 0 - 1000]
     /\ calib_pres = [dig_P1 |-> 36477, dig_P2 |-> 0 - 10685, dig_P3 |-> 3024,
                      dig_P4 |-> 2855, dig_P5 |-> 140, dig_P6 |-> 0 - 7,
                      dig_P7 |-> 15500, dig_P8 |-> 0 - 14600,
                      dig_P9 |-> 6000])
        => /\ Compensated(BMP280_MEAS_TYPE_TEMP_AND_PRES, 6,
                          << 101, 90, 192, 126, 237, 0 >>)
                  => meas_mem[meas].pressure = << 25767233 >>
           /\ Compensated(BMP280_MEAS_TYPE_TEMP_AND_PRES, 6,
                          << 85, 115, 0, 122, 18, 0 >>)
                  => meas_mem[meas].pressure = << 28376756 >>

\* C19 witness: the second example has been computed with the calibration
\* of the claim.
C19_Witness ==
    /\ calib_pres.dig_P1 = 36477
    /\ calib_temp.dig_T1 = 27504
    /\ Compensated(BMP280_MEAS_TYPE_TEMP_AND_PRES, 6,
                   << 85, 115, 0, 122, 18, 0 >>)
    /\ meas_mem[meas].pressure = << 28376756 >>

\* The raw 20-bit value the temperature registers held when
\* read_meas_forced_mode_part_5 ran: bytes 1..3 of read_buf for ONLY_TEMP,
\* bytes 4..6 for TEMP_AND_PRES.
TempRawRead ==
    LET off == IF meas_type = BMP280_MEAS_TYPE_TEMP_AND_PRES THEN 3 ELSE 0
    IN  read_buf[off + 1] * 4096 + read_buf[off + 2] * 16
            + (read_buf[off + 3] \div 16)

\* The temperature formula of the data sheet; x >> n on a signed value is
\* the floor of x / 2^n.
TempFormula(raw, T1, T2, T3) ==
    LET d == (raw \div 16) - T1
        t_fine == (((raw \div 8) - T1 * 2) * T2) \div 2048
                      + ((((d * d) \div 4096) * T3) \div 16384)
    IN  (t_fine * 5 + 128) \div 256

\* C20: the temperature a measurement stores equals (t_fine*5 + 128) >> 8
\* with t_fine = ((((raw>>3) - (T1<<1)) * T2) >> 11) + ((((((raw>>4) - T1)
\* * ((raw>>4) - T1)) >> 12) * T3) >> 14), for the coefficients held for
\* the instance; with T1=27504, T2=26435, T3=-1000 raw 519888 gives 2508
\* and raw 500000 gives 1885, and with T1=27522, T2=26451, T3=-1256 raw
\* 519888 gives 2499.
C20_TemperatureFormula ==
    (/\ last.step = "cb"
     /\ last.name = "read_meas_forced_mode_part_5"
     /\ last.io_rc = BMP280_IO_RESULT_CODE_OK)
        => LET t == meas_mem[meas].temperature
               is(T1, T2, T3) ==
                   calib_temp = [dig_T1 |-> T1, dig_T2 |-> T2, dig_T3 |-> T3]
           IN  /\ t = << TempFormula(TempRawRead, calib_temp.dig_T1,
                                     calib_temp.dig_T2, calib_temp.dig_T3) >>
               /\ (is(27504, 26435, 0 - 1000) /\ TempRawRead = 519888)
                      => t = << 2508 >>
               /\ (is(27504, 26435, 0 - 1000) /\ TempRawRead = 500000)
                      => t = << 1885 >>
               /\ (is(27522, 26451, 0 - 1256) /\ TempRawRead = 519888)
                      => t = << 2499 >>

\* C20 witness: raw 519888 has been compensated with the second set of
\* coefficients.
C20_Witness ==
    /\ last.step = "cb"
    /\ last.name = "read_meas_forced_mode_part_5"
    /\ last.io_rc = BMP280_IO_RESULT_CODE_OK
    /\ calib_temp = [dig_T1 |-> 27522, dig_T2 |-> 26451, dig_T3 |-> 0 - 1256]
    /\ TempRawRead = 519888
    /\ meas_mem[meas].temperature = << 2499 >>

\* C17: with two instances created from distinct storage, a command or a
\* callback on one instance leaves every field of the other instance (and
\* the requests it has outstanding) unchanged, and a command called with
\* valid arguments on one instance while the other has a command in flight
\* is accepted: it returns OK and issues its first request.
C17_InstancesIndependent ==
    [][/\ last'.step \in {"call", "cb", "transfer"} => other' = other
       /\ (/\ last'.step = "call"
           /\ last'.valid
           /\ last'.ret # BMP280_RESULT_CODE_INVAL_USAGE
           /\ other.pending # {})
              => /\ last'.ret = BMP280_RESULT_CODE_OK
                 /\ Len(last'.issued) = 1
                 /\ pending' = pending \cup {last'.issued[1]}]_vars

\* C17 witness: both instances have a command in flight, the second one
\* accepted while the first one's request was outstanding, and the first
\* one's callback has since been invoked on its own instance.
C17_Witness ==
    /\ self = "ptr"
    /\ other.self = "ptr2"
    /\ other.pending # {}
    /\ \A r \in other.pending : r.owner = 2
    /\ last.step = "cb"
    /\ last.owner = 1
    /\ last.fired = << [user_data |-> 1, rc |-> BMP280_RESULT_CODE_OK] >>
    /\ other.complete_cb_user_data = 2

\* C21: a successful init_meas reads 24 bytes starting at register 0x88 and
\* stores, for the byte block b the read returned: T1 = b[0] + 256*b[1]
\* (unsigned), T2 and T3 the two's-complement 16-bit values of bytes 2..3
\* and 4..5, P1 the unsigned 16-bit value of bytes 6..7, and P2..P9 the
\* two's-complement 16-bit values of the eight little-endian pairs after.
C21_CalibrationParse ==
    LET b == last.v
        u16(i) == b[i + 1] + 256 * b[i + 2]
        s16(i) == IF u16(i) >= 32768 THEN u16(i) - 65536 ELSE u16(i)
    IN  /\ (/\ last.step = "call"
            /\ last.name = "bmp280_init_meas"
            /\ last.ret = BMP280_RESULT_CODE_OK)
               => /\ Len(last.issued) = 1
                  /\ last.issued[1].fn = "read_regs"
                  /\ last.issued[1].addr = BMP280_CALIB_DATA_START_REG_ADDR
                  /\ last.issued[1].arg = 24
        /\ (/\ last.step = "cb"
            /\ last.name = "init_meas_part_2"
            /\ last.io_rc = BMP280_IO_RESULT_CODE_OK)
               => /\ Len(b) = 24
                  /\ calib_temp = [dig_T1 |-> u16(0), dig_T2 |-> s16(2),
                                   dig_T3 |-> s16(4)]
                  /\ calib_pres = [dig_P1 |-> u16(6), dig_P2 |-> s16(8),
                                   dig_P3 |-> s16(10), dig_P4 |-> s16(12),
                                   dig_P5 |-> s16(14), dig_P6 |-> s16(16),
                                   dig_P7 |-> s16(18), dig_P8 |-> s16(20),
                                   dig_P9 |-> s16(22)]

\* C22: when an init_meas completes successfully on an instance on which an
\* init_meas has completed successfully before, the 12 cached coefficients
\* are afterwards the values parsed from the 24 bytes this run read: they
\* replace the earlier ones, and are the same as before if those bytes
\* parse to the coefficients the earlier run left.
C22_InitMeasTwice ==
    [][(/\ last'.step = "cb"
        /\ last'.name = "init_meas_part_2"
        /\ last'.io_rc = BMP280_IO_RESULT_CODE_OK
        /\ \E t \in Tokens :
               /\ t # last'.owner
               /\ hist[t].op = "bmp280_init_meas"
               /\ hist[t].result = << BMP280_RESULT_CODE_OK >>)
           => LET temp == convert_temp_calib_reg_vals_to_calib_values(
                              last'.v, 0)
                  pres == convert_pres_calib_reg_vals_to_calib_values(
                              last'.v, 6)
              IN  /\ calib_temp' = temp
                  /\ calib_pres' = pres
                  /\ (calib_temp = temp /\ calib_pres = pres)
                         => UNCHANGED << calib_temp, calib_pres >>]_vars

\* C23: for every valid oversampling value, filter coefficient and
\* interface mode and every byte read, the target bit-field of the byte the
\* command writes (bits[7:5] for temperature oversampling, bits[4:2] for
\* pressure oversampling and filter coefficient, bit[0] for interface mode)
\* is the value that was passed to the command.
C23_FieldRoundTrip ==
    LET passed == hist[last.owner].arg[1]
        written == last.issued[1].arg
    IN  /\ WroteBack("read_set_temp_oversamlping_part_2")
               => Field(written, 7, 5) = passed
        /\ WroteBack("read_set_pres_oversamlping_part_2")
               => Field(written, 4, 2) = passed
        /\ WroteBack("set_filter_coefficient_part_2")
               => Field(written, 4, 2) = passed
        /\ WroteBack("set_spi_3_wire_interface_part_2")
               => Field(written, 0, 0) = passed

\* C24: at the completion point of a command the callback that is invoked
\* is the one passed to that same command call, with the user data passed
\* to that call: never the callback or user data of another command issued
\* on the instance before or during it.
C24_OwnCallbackAndUserData ==
    (last.step = "cb" /\ last.issued = << >>)
        => IF hist[last.owner].cb = NULL
           THEN last.fired = << >>
           ELSE /\ Len(last.fired) = 1
                /\ last.fired[1].user_data = last.owner

\* The call A can return rc in the current state.
Returns(A, rc) == ENABLED (A /\ last'.ret = rc)

C26_BusyRejectDropped ==
    \A t \in Tokens :
        hist[t].busy =>
            /\ hist[t].calls = 0
            /\ ~(\E r \in pending : r.owner = t)
            /\ hist[t].result = << >>
            /\ hist[t].delivered = << >>

\* C27: as long as the continuation of the outstanding step has not been
\* invoked the instance stays busy: a valid command called in the meantime
\* returns BUSY and leaves the outstanding request as it is, and a command
\* in flight stops being in flight only in a continuation invoked by a
\* collaborator, never in another step of the driver (no timeout, no
\* cancellation).
C27_StaysBusyWithoutContinuation ==
    [][/\ (/\ pending # {}
           /\ last'.step = "call"
           /\ last'.valid
           /\ last'.ret # BMP280_RESULT_CODE_INVAL_USAGE)
              => (last'.ret = BMP280_RESULT_CODE_BUSY /\ pending' = pending)
       /\ (InFlight /\ ~InFlight') => last'.step = "cb"]_vars

\* C28: for every 3 data bytes b0, b1, b2 the raw value used for
\* compensation is (b0 << 12) | (b1 << 4) | (b2 >> 4): it lies in
\* 0 .. 2^20 - 1 and does not depend on the low 4 bits of b2.
C28_RawValue ==
    last.step = "convert" =>
        LET b0 == read_buf[TempStartIdx + 1]
            b1 == read_buf[TempStartIdx + 2]
            b2 == read_buf[TempStartIdx + 3]
            raw == last.v[1]
        IN  /\ raw = b0 * 4096 + b1 * 16 + (b2 \div 16)
            /\ raw \in 0 .. (2 ^ 20 - 1)
            /\ \A low \in 0 .. 15 :
                   temp_pres_bytes_to_raw_val(
                       [read_buf EXCEPT ![TempStartIdx + 3] =
                                            (b2 \div 16) * 16 + low],
                       TempStartIdx) = raw

\* C28 witness: three bytes with all bits set, the low 4 bits of the third
\* included, have been converted to the largest 20-bit value.
C28_Witness ==
    /\ last.step = "convert"
    /\ read_buf[TempStartIdx + 1] = 255
    /\ read_buf[TempStartIdx + 2] = 255
    /\ read_buf[TempStartIdx + 3] = 255
    /\ last.v = << 1048575 >>

\* The divisor compensate_pres computes from the pressure coefficients and
\* t_fine: ((2^47 + var1) * P1) >> 33 with var1 = ((v*v*P3) >> 8) +
\* ((v*P2) << 12) and v = t_fine - 128000.
PresDivisor(calib, t_fine) ==
    LET v == I64Sub(I64(t_fine), I64(128000))
        var1 == I64Add(I64Sar(I64Mul(I64Mul(v, v), I64(calib.dig_P3)), 8),
                       I64Shl(I64Mul(v, I64(calib.dig_P2)), 12))
    IN  I64Sar(I64Mul(I64Add(I64Shl(I64(1), 47), var1), I64(calib.dig_P1)),
               33)

\* C29: when the divisor ((2^47 + var1) * P1) >> 33 of the pressure
\* compensation is 0 (as with P1 = 0), the pressure a TEMP_AND_PRES
\* measurement stores is 0 and the command completes with OK.
C29_ZeroDivisorPressure ==
    (/\ last.step = "cb"
     /\ last.name = "read_meas_forced_mode_part_5"
     /\ last.io_rc = BMP280_IO_RESULT_CODE_OK
     /\ meas_type = BMP280_MEAS_TYPE_TEMP_AND_PRES
     /\ PresDivisor(calib_pres,
                    compensate_t_fine(calib_temp, TempRawRead)).mag = << >>)
        => /\ meas_mem[meas].pressure = << 0 >>
           /\ \A i \in 1 .. Len(last.fired) :
                  last.fired[i].rc = BMP280_RESULT_CODE_OK
           /\ hist[last.owner].result = << BMP280_RESULT_CODE_OK >>

\* C29 witness: a TEMP_AND_PRES measurement has been computed with P1 = 0
\* and the callback has been given OK.
C29_Witness ==
    /\ last.step = "cb"
    /\ last.name = "read_meas_forced_mode_part_5"
    /\ last.io_rc = BMP280_IO_RESULT_CODE_OK
    /\ meas_type = BMP280_MEAS_TYPE_TEMP_AND_PRES
    /\ calib_pres.dig_P1 = 0
    /\ meas_mem[meas].pressure = << 0 >>
    /\ Len(last.fired) = 1
    /\ last.fired[1].rc = BMP280_RESULT_CODE_OK

\* C30: an accepted get_chip_id issues exactly one read_regs(0xD0, 1) into
\* the caller's chip_id location and no register write or timer; when the
\* read's continuation is invoked, the command's callback is given OK
\* whatever byte was read, and IO_ERR if and only if the read reported a
\* failure.
C30_GetChipId ==
    LET mine == hist[last.owner]
        rc == IF last.io_rc = BMP280_IO_RESULT_CODE_OK
              THEN BMP280_RESULT_CODE_OK
              ELSE BMP280_RESULT_CODE_IO_ERR
    IN  /\ (/\ last.step = "call"
            /\ last.name = "bmp280_get_chip_id"
            /\ last.ret = BMP280_RESULT_CODE_OK)
               => /\ Len(last.issued) = 1
                  /\ last.issued[1].fn = "read_regs"
                  /\ last.issued[1].addr = BMP280_CHIP_ID_REG_ADDR
                  /\ last.issued[1].arg = 1
                  /\ last.issued[1].data = "chip_id"
        /\ \A t \in Tokens :
               hist[t].op = "bmp280_get_chip_id" =>
                   /\ hist[t].calls = 1
                   /\ \A r \in pending :
                          r.owner = t => /\ r.fn = "read_regs"
                                         /\ r.addr = BMP280_CHIP_ID_REG_ADDR
                   /\ \A i \in 1 .. Len(hist[t].delivered) :
                          /\ i = 1
                          /\ hist[t].result # << >>
                          /\ (hist[t].delivered[i] = BMP280_RESULT_CODE_IO_ERR)
                                 <=> hist[t].failed
        /\ (last.step = "cb" /\ mine.op = "bmp280_get_chip_id")
               => /\ last.issued = << >>
                  /\ mine.result = << rc >>
                  /\ last.fired = IF mine.cb = NULL THEN << >>
                                  ELSE << [user_data |-> last.owner,
                                           rc |-> rc] >>
                  /\ last.io_rc = BMP280_IO_RESULT_CODE_OK =>
                         chip_id_mem[last.owner] = last.v

\* C31: the completion callback is never invoked with DRIVER_ERR: whenever
\* the timer-expiry step or the final step of a measurement is about to
\* inspect, or has inspected, the stored measurement type, that type is
\* ONLY_TEMP or TEMP_AND_PRES.
C31_NoDriverErr ==
    LET MeasTypeSteps == {"read_meas_forced_mode_part_4",
                          "read_meas_forced_mode_part_5"}
        ValidTypes == {BMP280_MEAS_TYPE_ONLY_TEMP,
                       BMP280_MEAS_TYPE_TEMP_AND_PRES}
    IN  /\ \A i \in 1 .. Len(last.fired) :
               last.fired[i].rc # BMP280_RESULT_CODE_DRIVER_ERR
        /\ \A t \in Tokens :
               /\ \A i \in 1 .. Len(hist[t].result) :
                      hist[t].result[i] # BMP280_RESULT_CODE_DRIVER_ERR
               /\ \A i \in 1 .. Len(hist[t].delivered) :
                      hist[t].delivered[i] # BMP280_RESULT_CODE_DRIVER_ERR
        /\ (\E r \in pending : r.cb \in MeasTypeSteps) => meas_type \in ValidTypes
        /\ (last.step = "cb" /\ last.name \in MeasTypeSteps)
               => meas_type \in ValidTypes

\* C31 witness: the timer of a TEMP_AND_PRES measurement has expired and
\* the step has issued the read of the six data registers.
C31_Witness ==
    /\ last.step = "cb"
    /\ last.name = "read_meas_forced_mode_part_4"
    /\ meas_type = BMP280_MEAS_TYPE_TEMP_AND_PRES
    /\ Len(last.issued) = 1
    /\ last.issued[1].arg = 6

\* The number of asynchronous steps (register reads, register writes and
\* timer waits) the sequence of a command consists of.
StepsOf(op) ==
    IF op \in {"bmp280_get_chip_id", "bmp280_init_meas"} THEN 1
    ELSE IF op = "bmp280_read_meas_forced_mode" THEN 4
    ELSE 2

\* C32: every accepted command eventually reaches its completion point,
\* provided the collaborators eventually invoke the continuation of each
\* request; a continuation issues at most one request, which is the one of
\* a later step of the same command, and a command issues at most 4
\* requests: 1 for get_chip_id and init_meas, 2 for reset_with_delay and
\* the settings commands, 4 for read_meas_forced_mode.
C32_Termination ==
    /\ [](\A t \in Tokens :
              hist[t].op # "none" =>
                  /\ hist[t].calls <= StepsOf(hist[t].op)
                  /\ hist[t].calls <= 4
                  /\ (hist[t].result = << BMP280_RESULT_CODE_OK >>
                          /\ ~hist[t].failed)
                         => hist[t].calls = StepsOf(hist[t].op))
    /\ [][last'.step = "cb" =>
              /\ Cardinality(pending') <= Cardinality(pending)
              /\ Len(last'.issued) <= 1
              /\ \A i \in 1 .. Len(last'.issued) :
                     /\ last'.issued[i].owner = last'.owner
                     /\ last'.issued[i].cb # last'.name
                     /\ hist'[last'.owner].calls = hist[last'.owner].calls + 1]_vars
    /\ \A t \in Tokens :
           (hist[t].op # "none") ~> (hist[t].result # << >>)

\* C32 witness: a measurement has completed with OK after its four steps.
C32_Witness ==
    /\ last.step = "cb"
    /\ last.name = "read_meas_forced_mode_part_5"
    /\ hist[last.owner].op = "bmp280_read_meas_forced_mode"
    /\ hist[last.owner].calls = 4
    /\ hist[last.owner].result = << BMP280_RESULT_CODE_OK >>

\* C33: the synchronous checks come before any exclusivity check: a command
\* called with an invalid argument while another command is in flight
\* returns INVAL_ARG, not BUSY, and read_meas_forced_mode called with valid
\* arguments while another command is in flight and the calibration is not
\* initialised returns INVAL_USAGE, not BUSY; neither issues a request.
C33_ChecksBeforeBusy ==
    (last.step = "call" /\ last.busy) =>
        /\ ~last.valid =>
               /\ last.ret = BMP280_RESULT_CODE_INVAL_ARG
               /\ last.issued = << >>
        /\ (/\ last.valid
            /\ last.name = "bmp280_read_meas_forced_mode"
            /\ ~is_meas_init)
               => /\ last.ret = BMP280_RESULT_CODE_INVAL_USAGE
                  /\ last.issued = << >>

\* C33 witness: a measurement has been refused with INVAL_USAGE while the
\* read of a get_chip_id was outstanding.
C33_Witness ==
    /\ last.step = "call"
    /\ last.busy
    /\ last.valid
    /\ last.name = "bmp280_read_meas_forced_mode"
    /\ last.ret = BMP280_RESULT_CODE_INVAL_USAGE
    /\ hist[1].op = "bmp280_get_chip_id"
    /\ \E r \in pending : r.owner = 1

\* C34: in the final step of a measurement, for ONLY_TEMP the temperature
\* is computed from data bytes 0..2 and the pressure field of the output is
\* not written; for TEMP_AND_PRES the pressure is computed from data bytes
\* 0..2 and the temperature from data bytes 3..5, the pressure using the
\* t_fine of that temperature computation.  The data bytes are those the
\* command's last read returned, the output is the command's own.
C34_FinalStepBytes ==
    (/\ last.step = "cb"
     /\ last.name = "read_meas_forced_mode_part_5"
     /\ last.io_rc = BMP280_IO_RESULT_CODE_OK)
        => LET mt == hist[last.owner].arg[1]
               out == meas_mem[last.owner]
               data == last.v
           IN  /\ mt = BMP280_MEAS_TYPE_ONLY_TEMP =>
                      /\ Len(data) = 3
                      /\ out.temperature =
                             << compensate_temp(
                                    calib_temp,
                                    temp_pres_bytes_to_raw_val(data, 0)) >>
                      /\ out.pressure = << >>
               /\ mt = BMP280_MEAS_TYPE_TEMP_AND_PRES =>
                      /\ Len(data) = 6
                      /\ out.temperature =
                             << compensate_temp(
                                    calib_temp,
                                    temp_pres_bytes_to_raw_val(data, 3)) >>
                      /\ out.pressure =
                             << compensate_pres(
                                    calib_pres,
                                    temp_pres_bytes_to_raw_val(data, 0),
                                    compensate_t_fine(
                                        calib_temp,
                                        temp_pres_bytes_to_raw_val(data, 3))) >>

\* C35: when the completion callback of a command is invoked the instance
\* is no longer busy: a valid command called from inside the callback (the
\* call follows the continuation that invoked the callback, which does
\* nothing after it) is accepted: it returns OK, not BUSY, and issues its
\* first request.
C35_AcceptedInsideCallback ==
    [][(/\ last.step = "cb"
        /\ last.fired # << >>
        /\ last'.step = "call"
        /\ last'.valid
        /\ last'.ret # BMP280_RESULT_CODE_INVAL_USAGE)
           => /\ last'.ret = BMP280_RESULT_CODE_OK
              /\ Len(last'.issued) = 1
              /\ last'.issued[1] \in pending']_vars

\* C35 witness: a measurement has been accepted right after the callback
\* of a successful init_meas was invoked, nothing else being in flight.
C35_Witness ==
    /\ last.step = "call"
    /\ last.name = "bmp280_read_meas_forced_mode"
    /\ last.ret = BMP280_RESULT_CODE_OK
    /\ last.owner = 2
    /\ ~last.busy
    /\ hist[1].op = "bmp280_init_meas"
    /\ hist[1].delivered = << BMP280_RESULT_CODE_OK >>

\* C36: the caller's measurement output location is written only in the
\* final step of a read_meas_forced_mode whose four steps all succeeded:
\* while a step of the measurement has failed, or its final data read has
\* not completed, neither the temperature nor the pressure field of its
\* output has been modified.
C36_OutputWrittenOnlyAtEnd ==
    \A t \in Tokens :
        (meas_mem[t].temperature # << >> \/ meas_mem[t].pressure # << >>)
            => /\ hist[t].op = "bmp280_read_meas_forced_mode"
               /\ hist[t].calls = 4
               /\ ~hist[t].failed
               /\ hist[t].result = << BMP280_RESULT_CODE_OK >>
               /\ ~(\E r \in pending : r.owner = t)

\* A measurement has been computed after an init_meas whose calibration
\* read failed, on the instance calibrated before with default_calib_data.
MeasuredAfterFailedInit ==
    /\ hist[1].op = "bmp280_init_meas"
    /\ hist[1].result = << BMP280_RESULT_CODE_IO_ERR >>
    /\ hist[2].op = "bmp280_read_meas_forced_mode"
    /\ last.step = "cb"
    /\ last.name = "read_meas_forced_mode_part_5"
    /\ last.owner = 2
    /\ last.io_rc = BMP280_IO_RESULT_CODE_OK

\* C37: when the calibration read of an init_meas reports failure, the 12
\* cached coefficients and the initialised flag keep the values they had:
\* neither the call nor the failing continuation changes them (only a
\* continuation given OK does), and a measurement taken afterwards on the
\* calibrated instance uses the coefficients of the last successful
\* init_meas.
C37_FailedInitMeasKeepsCalibration ==
    /\ [][/\ (last'.step = "call" /\ last'.name = "bmp280_init_meas")
                => UNCHANGED calibVars
          /\ (/\ last'.step = "cb"
              /\ last'.name = "init_meas_part_2"
              /\ last'.io_rc # BMP280_IO_RESULT_CODE_OK)
                => UNCHANGED calibVars
          /\ calibVars' # calibVars
                => /\ last'.step = "cb"
                   /\ last'.name = "init_meas_part_2"
                   /\ last'.io_rc = BMP280_IO_RESULT_CODE_OK]_vars
    /\ [](MeasuredAfterFailedInit =>
              /\ is_meas_init
              /\ calib_temp = convert_temp_calib_reg_vals_to_calib_values(
                                  default_calib_data, 0)
              /\ calib_pres = convert_pres_calib_reg_vals_to_calib_values(
                                  default_calib_data, 6)
              /\ meas_mem[meas].temperature =
                     << TempFormula(TempRawRead, 27504, 26435, 0 - 1000) >>)

\* C37 witness: after the failed calibration read, in which the registers
\* of the second block had reached the read buffer, a measurement has
\* stored the temperature the first block gives for raw value 519888.
C37_Witness ==
    /\ MeasuredAfterFailedInit
    /\ ~hist[2].busy
    /\ TempRawRead = 519888
    /\ meas_mem[2].temperature = << 2508 >>

\* C38: every read_regs request into the instance's read buffer asks for 1,
\* 3, 6 or 24 bytes, never more than BMP280_READ_BUF_SIZE, and every index
\* a continuation reads from the read buffer is below the number of bytes
\* the read it continues asked for: index 0 in the steps that modify a
\* register, indices 0..23 in init_meas_part_2, indices 0..2 (ONLY_TEMP) or
\* 0..5 (TEMP_AND_PRES) in read_meas_forced_mode_part_5.
C38_ReadBufferBounds ==
    LET requested == Len(last.v)
        ReadsFirstByte == {"read_meas_forced_mode_part_2",
                           "read_set_temp_oversamlping_part_2",
                           "read_set_pres_oversamlping_part_2",
                           "set_filter_coefficient_part_2",
                           "set_spi_3_wire_interface_part_2"}
    IN  /\ \A r \in pending :
               (r.fn = "read_regs" /\ r.data = "read_buf")
                   => /\ r.arg \in {1, 3, 6, 24}
                      /\ r.arg <= BMP280_READ_BUF_SIZE
        /\ (last.step = "cb" /\ last.io_rc = BMP280_IO_RESULT_CODE_OK)
               => /\ last.name \in ReadsFirstByte => 0 < requested
                  /\ last.name = "init_meas_part_2" => 23 < requested
                  /\ last.name = "read_meas_forced_mode_part_5"
                         => (IF meas_type = BMP280_MEAS_TYPE_TEMP_AND_PRES
                             THEN 5 ELSE 2) < requested

\* C39: the only register addresses passed to write_reg are 0xE0, 0xF4 and
\* 0xF5; the value written to 0xE0 is 0xB6; a write to 0xF4 or 0xF5 is
\* issued only by the continuation of a read of that same register that
\* completed with OK, in the same command.
C39_WriteTargets ==
    /\ [](\A r \in pending :
              r.fn = "write_reg" =>
                  /\ r.addr \in {BMP280_RESET_REG_ADDR,
                                 BMP280_CTRL_MEAS_REG_ADDR,
                                 BMP280_CONFIG_REG_ADDR}
                  /\ r.addr = BMP280_RESET_REG_ADDR
                         => r.arg = BMP280_RESET_REG_VALUE)
    /\ [][\A i \in 1 .. Len(last'.issued) :
              (/\ last'.issued[i].fn = "write_reg"
               /\ last'.issued[i].addr \in {BMP280_CTRL_MEAS_REG_ADDR,
                                            BMP280_CONFIG_REG_ADDR})
                  => /\ last'.step = "cb"
                     /\ last'.io_rc = BMP280_IO_RESULT_CODE_OK
                     /\ \E r \in pending \ pending' :
                            /\ r.fn = "read_regs"
                            /\ r.addr = last'.issued[i].addr
                            /\ r.owner = last'.issued[i].owner
                            /\ r.landed]_vars

\* C39 witness: set_spi_3_wire_interface has written 0xF5 after reading it
\* while the write of a reset to 0xE0 is outstanding.
C39_Witness ==
    /\ last.step = "cb"
    /\ last.name = "set_spi_3_wire_interface_part_2"
    /\ Len(last.issued) = 1
    /\ last.issued[1].fn = "write_reg"
    /\ last.issued[1].addr = BMP280_CONFIG_REG_ADDR
    /\ \E r \in pending :
           /\ r.fn = "write_reg"
           /\ r.addr = BMP280_RESET_REG_ADDR
           /\ r.arg = BMP280_RESET_REG_VALUE

\* C40: accepting a command replaces the recorded completion callback and
\* user data by those of the call, also when the callback is null: a
\* completion point invokes the callback of the command accepted last and
\* no other, so after a command with a non-null callback has completed, a
\* following command accepted with a null callback never causes the
\* earlier callback to be invoked again.
C40_CallbackReplaced ==
    /\ [][/\ (last'.step = "call" /\ last'.ret = BMP280_RESULT_CODE_OK)
                => /\ complete_cb' = hist'[last'.owner].cb
                   /\ complete_cb_user_data' = last'.owner
          /\ (/\ nCmds > 0
              /\ nCmds' = nCmds
              /\ hist[nCmds].cb = NULL)
                => \A t \in Tokens :
                       hist'[t].delivered = hist[t].delivered]_vars
    /\ []((last.step = "cb" /\ nCmds > 0) =>
              IF hist[nCmds].cb = NULL
              THEN last.fired = << >>
              ELSE \A i \in 1 .. Len(last.fired) :
                       last.fired[i].user_data = nCmds)

\* C40 witness: a command with a callback has completed and had it invoked
\* once; the following command, accepted with a null callback, has reached
\* its completion point and nothing was invoked.
C40_Witness ==
    /\ hist[1].cb # NULL
    /\ hist[1].delivered = << BMP280_RESULT_CODE_OK >>
    /\ hist[2].cb = NULL
    /\ ~hist[2].busy
    /\ hist[2].result # << >>
    /\ last.step = "cb"
    /\ last.owner = 2
    /\ last.fired = << >>

====
